---- MODULE Spec2Model ----
(***************************************************************************)
(* Endpoint-monitor telemetry platform: server ingest pipeline, request    *)
(* signing, rate limiter, agent spool and sender.                          *)
(*                                                                         *)
(* Times are whole seconds.  Hashes (SHA-256, HMAC-SHA256) are modelled as *)
(* injective constructors: two digests are equal exactly when their inputs *)
(* are equal.                                                              *)
(***************************************************************************)
EXTENDS Integers, Sequences, FiniteSets, TLC

(***************************************************************************)
(* Bounds of the model.                                                    *)
(***************************************************************************)
MaxTime == 2
MaxEvents == 3
MaxBucketCount == 3
MaxLocalCount == 1
MaxRedisErrors == 2
MaxBatches == 4
MaxAttempts == 4
MaxRetry == 11
MaxBackoffBatches == 2
MaxLimit == 2
MaxAgentTime == 7
MaxCycles == 11
MaxDaemonBatches == 2

(***************************************************************************)
(* Configuration values (server/config.py), scaled to the model.           *)
(***************************************************************************)
replay_window_seconds == 1
max_payload_bytes == 6
RateWindow == 2
max_batches == 2

NoValue == "none"

Min(a, b) == IF a <= b THEN a ELSE b
Max(a, b) == IF a >= b THEN a ELSE b
Abs(x) == IF x < 0 THEN 0 - x ELSE x

(***************************************************************************)
(* Bytes and bit flips.                                                    *)
(***************************************************************************)
RECURSIVE Pow2(_)
Pow2(n) == IF n = 0 THEN 1 ELSE 2 * Pow2(n - 1)

BitSet(b, k) == (b \div Pow2(k)) % 2 = 1
FlipBit(b, k) == IF BitSet(b, k) THEN b - Pow2(k) ELSE b + Pow2(k)
FlipAt(s, i, k) == [s EXCEPT ![i] = FlipBit(s[i], k)]

(***************************************************************************)
(* bytes.decode("utf-8"): TRUE when the byte string is well-formed UTF-8.  *)
(***************************************************************************)
IsCont(s, i) == i <= Len(s) /\ s[i] >= 128 /\ s[i] <= 191

RECURSIVE Utf8Ok(_, _)
Utf8Ok(s, i) ==
    IF i > Len(s) THEN TRUE
    ELSE IF s[i] < 128 THEN Utf8Ok(s, i + 1)
    ELSE IF s[i] >= 194 /\ s[i] <= 223
        THEN IsCont(s, i + 1) /\ Utf8Ok(s, i + 2)
    ELSE IF s[i] >= 224 /\ s[i] <= 239
        THEN IsCont(s, i + 1) /\ IsCont(s, i + 2) /\ Utf8Ok(s, i + 3)
    ELSE IF s[i] >= 240 /\ s[i] <= 244
        THEN IsCont(s, i + 1) /\ IsCont(s, i + 2) /\ IsCont(s, i + 3) /\ Utf8Ok(s, i + 4)
    ELSE FALSE

(***************************************************************************)
(* json.loads on the fragment of JSON made of whitespace, arrays and       *)
(* unsigned integers.  A parsed value is represented by its rendering with *)
(* json.dumps(sort_keys, separators=(",", ":")), so canon is at once the   *)
(* value and its canonical encoding.  Result: [ok, kind, canon, pos].      *)
(***************************************************************************)
IsWs(b) == b \in {32, 9, 10, 13}
IsDigit(b) == b >= 48 /\ b <= 57

RECURSIVE SkipWs(_, _)
SkipWs(s, i) == IF i <= Len(s) /\ IsWs(s[i]) THEN SkipWs(s, i + 1) ELSE i

RECURSIVE DigitsEnd(_, _)
DigitsEnd(s, i) == IF i <= Len(s) /\ IsDigit(s[i]) THEN DigitsEnd(s, i + 1) ELSE i

ParseFail == [ok |-> FALSE, kind |-> "error", canon |-> <<>>, pos |-> 0]

RECURSIVE ParseValue(_, _)
RECURSIVE ParseElems(_, _, _)

\* The array that opens at position i; j is the first position after the
\* bracket and the whitespace that follows it.
ParseArray(s, i, j) ==
    IF j <= Len(s) /\ s[j] = 93
    THEN [ok |-> TRUE, kind |-> "list", canon |-> <<91, 93>>, pos |-> j + 1]
    ELSE ParseElems(s, j, <<91>>)

\* The number that starts at position i and whose digits end before e.
ParseNumber(s, i, e) ==
    IF s[i] = 48 /\ e > i + 1
    THEN \* "0" followed by more digits: the number ends after the zero
         [ok |-> TRUE, kind |-> "scalar", canon |-> <<48>>, pos |-> i + 1]
    ELSE [ok |-> TRUE, kind |-> "scalar", canon |-> SubSeq(s, i, e - 1), pos |-> e]

ParseValue(s, i) ==
    IF i > Len(s) THEN ParseFail
    ELSE IF s[i] = 91 THEN ParseArray(s, i, SkipWs(s, i + 1))
    ELSE IF IsDigit(s[i]) THEN ParseNumber(s, i, DigitsEnd(s, i))
    ELSE ParseFail

\* After the element v of an array, j the position after the whitespace
\* that follows it: the closing bracket, or a comma and the next element.
ParseAfterElem(s, acc, v, j) ==
    IF j > Len(s) THEN ParseFail
    ELSE IF s[j] = 93
        THEN [ok |-> TRUE, kind |-> "list", canon |-> acc \o v.canon \o <<93>>, pos |-> j + 1]
    ELSE IF s[j] = 44
        THEN ParseElems(s, SkipWs(s, j + 1), acc \o v.canon \o <<44>>)
    ELSE ParseFail

ParseElem(s, acc, v) ==
    IF ~v.ok THEN ParseFail ELSE ParseAfterElem(s, acc, v, SkipWs(s, v.pos))

ParseElems(s, i, acc) == ParseElem(s, acc, ParseValue(s, i))

\* The whole text is one value with whitespace around it.
ParseWhole(s, v) ==
    IF ~v.ok THEN ParseFail
    ELSE IF SkipWs(s, v.pos) = Len(s) + 1 THEN v
    ELSE ParseFail

json_loads(s) == ParseWhole(s, ParseValue(s, SkipWs(s, 1)))

(***************************************************************************)
(* shared/signing.py.  A request body is [raw, doc]: raw is the byte       *)
(* string on the wire, doc is the content that the document carries (what  *)
(* schema validation later reads).                                         *)
(***************************************************************************)
\* _body_payload for a bytes body: the parsed payload or the error raised.
isinstance_dict_or_list(p) ==
    IF ~p.ok THEN [tag |-> "JSONDecodeError", canon |-> <<>>]
    ELSE IF p.kind # "list" THEN [tag |-> "SignatureError", canon |-> <<>>]
    ELSE [tag |-> "ok", canon |-> p.canon]

body_payload(body) ==
    IF ~Utf8Ok(body.raw, 1) THEN [tag |-> "UnicodeDecodeError", canon |-> <<>>]
    ELSE isinstance_dict_or_list(json_loads(body.raw))

\* The hex digest of HMAC-SHA256(api_key, canonical body); flip = 0 is the
\* digest itself, flip = k in 1..8 the digest text with the k-th bit (from
\* the low end) of its first character inverted.
hmac_hexdigest(api_key, canon, doc) ==
    [key |-> api_key, canon |-> canon, doc |-> doc, flip |-> 0]

\* The empty header value, for a signature and for a timestamp.
NoDoc == [valid |-> FALSE, org_id |-> "", device_id |-> "", nonce |-> "",
          sent_at |-> 0, agent_version |-> "", events |-> <<>>]
NoSig == [key |-> "", canon |-> <<>>, doc |-> NoDoc, flip |-> 0]
NoTs == [kind |-> "missing", value |-> 0]

\* digest of the payload p that _body_payload returned (or the error it raised)
sign_payload(p, body, api_key) ==
    IF p.tag # "ok" THEN [tag |-> p.tag, sig |-> NoSig]
    ELSE [tag |-> "ok", sig |-> hmac_hexdigest(api_key, p.canon, body.doc)]

sign_request(body, api_key) == sign_payload(body_payload(body), body, api_key)

\* hmac.compare_digest(signature, expected), after sign_request returned
\* expected or raised.  compare_digest takes two str of ASCII characters only
\* and raises TypeError otherwise: a header value whose flipped bit is the
\* high bit of a character (flip = 8) is not ASCII.
compare_digest(signature, expected) ==
    IF expected.tag # "ok" THEN expected.tag
    ELSE IF signature.flip = 8 THEN "TypeError"
    ELSE IF signature = expected.sig THEN "true" ELSE "false"

\* verify_request: "true" / "false", or the name of the exception raised.
verify_request(body, headers, api_key) ==
    IF headers.sig = NoSig THEN "SignatureError"
    ELSE IF headers.ts = NoTs THEN "SignatureError"
    ELSE IF headers.nonce = "" THEN "SignatureError"
    ELSE compare_digest(headers.sig, sign_request(body, api_key))

(***************************************************************************)
(* State.                                                                  *)
(***************************************************************************)
VARIABLES
    now,            \* wall clock, seconds
    nonces,         \* table nonces: rows [org_id, device_id, nonce, seen_at, expires_at]
    devices,        \* table devices: rows [org_id, device_id, platform, agent_version, first_seen_at, last_seen_at]
    events,         \* table events, in insertion order
    buckets,        \* Redis keys ratelimit:ingest:<org>: [count, expires_at]
    local_counts,   \* RedisRateLimiter._local_counts: [count, reset_at]
    fail_closed,    \* RedisRateLimiter.fail_closed
    signing_keys,   \* app.state.signing_keys: org id -> api key
    task_queue,     \* Celery queue of compute tasks <<org_id, device_id>>
    resp,           \* the last /ingest response and what the request was
    accepted,       \* history: requests answered 200, [org_id, device_id, nonce, at, expires_at]
    lim_pc,         \* per server process: where its call of allow stands, [pc, org]
    worker_local,   \* per server process: its RedisRateLimiter._local_counts
    passed,         \* history: per org, requests let through in the current window
    lim_last,       \* history: the last decision of allow, and the Redis errors so far
    spool,          \* agent: table spool_batches
    pending,        \* agent: the batches send_due still has to send, in order
    counts,         \* send_due: its locals accepted and failed
    attempts,       \* agent: number of payloads built so far (each draws a nonce)
    enqueued,       \* agent: number of batches enqueued so far
    spool_last,     \* history: the last spool operation and what it did
    split,          \* a call of split_batches: [events, max_batch_events, batches, done]
    daemon,         \* run_daemon: where it stands, the stop event, the wait, the last cycle
    call,           \* a call of a function that keeps no state: [fn, input, output, done]
    insights,       \* table insights: rows [id, org_id, device_id, fingerprint, count, first_seen, last_seen]
    metrics,        \* table daily_metrics: rows [org_id, device_id, day, payload]
    runners,        \* per Celery worker and for the scheduler thread: where its compute stands
    handler,        \* the /ingest handler between its database call and its reply
    task_reqs,      \* history: for each task on the queue, the request that enqueued it
    histories,      \* history: the event lists bundles were persisted from
    computes,       \* history: number of computes started
    timeouts,       \* counter INSIGHT_COMPUTE_TIMEOUTS of org o1
    auth,           \* table refresh_tokens, the handlers of /auth/api/refresh, their replies
    watchdog,       \* local watchdog: table insights, the file-watch buffer, the events handed to a cycle
    sessions,       \* per server process: the database session its ingest_request has open
    filewatch       \* agent: the watched files, the state file of FilewatchCollector, what it reported

serverVars == <<now, nonces, devices, events, buckets, local_counts, fail_closed,
                signing_keys, task_queue, resp, accepted>>
limiterVars == <<lim_pc, worker_local, passed, lim_last>>
agentVars == <<spool, pending, counts, attempts, enqueued, spool_last, split, daemon, call>>

computeVars == <<insights, metrics, runners, handler, task_reqs, histories, computes,
                 timeouts, auth, watchdog, sessions, filewatch>>

vars == <<serverVars, limiterVars, agentVars, computeVars>>

(***************************************************************************)
(* Table orgs as seeded (o1 and o2 active, o3 inactive; "ox" has no row),  *)
(* and the key configurations app.state.signing_keys can be in.            *)
(***************************************************************************)
OrgIds == {"o1", "o2"}
AllOrgRows == {"o1", "o2", "o3"}
DeviceIds == {"d1"}
Workers == {"w1", "w2"}
NonceIds == {"n1", "n2"}

hash_secret(value) == <<"sha256", value>>

KeyOf(o) == "k-" \o o

orgs == [o \in AllOrgRows |->
            [is_active |-> o # "o3",
             api_key_hash |-> hash_secret(KeyOf(o)),
             ingest_rate_limit_per_minute |-> IF o = "o1" THEN 2 ELSE 1]]

\* The keys of the seeds the orgs table was written from.
SeededKeys == [o \in AllOrgRows |-> KeyOf(o)]
\* The server was restarted with another key for o1, or without a seed for o1.
DriftedKeys == [SeededKeys EXCEPT !["o1"] = "k-new"]
MissingKeys == [o \in AllOrgRows \ {"o1"} |-> KeyOf(o)]

get_org(org_id) == IF org_id \in DOMAIN orgs THEN {orgs[org_id]} ELSE {}

(***************************************************************************)
(* server/cache.py: RedisRateLimiter.allow.                                *)
(***************************************************************************)
NoExpiry == -1
EmptyBucket == [count |-> 0, expires_at |-> NoExpiry]
EmptyLocal == [count |-> 0, reset_at |-> NoExpiry]

\* A key whose time to live has run out no longer exists.
BucketLive(b, t) == b.count > 0 /\ (b.expires_at = NoExpiry \/ t < b.expires_at)
PurgeBuckets(bk, t) == [k \in DOMAIN bk |-> IF BucketLive(bk[k], t) THEN bk[k] ELSE EmptyBucket]

\* INCR key: creates the key at 1 without expiry, keeps the expiry of a live key.
RedisIncr(bk, key, t) ==
    LET cur == IF BucketLive(bk[key], t) THEN bk[key] ELSE EmptyBucket
    IN [bk EXCEPT ![key] = [count |-> cur.count + 1, expires_at |-> cur.expires_at]]

\* EXPIRE key ttl
RedisExpire(bk, key, ttl, t) ==
    IF BucketLive(bk[key], t) THEN [bk EXCEPT ![key].expires_at = t + ttl] ELSE bk

\* The local fallback of allow: count and reset_at of _local_counts[bucket].
allow_local(lc, key, limit, window_seconds, t) ==
    LET got == IF lc[key] = EmptyLocal
               THEN [count |-> 0, reset_at |-> t + window_seconds] ELSE lc[key]
        cur == IF t >= got.reset_at
               THEN [count |-> 0, reset_at |-> t + window_seconds] ELSE got
        new == [count |-> cur.count + 1, reset_at |-> cur.reset_at]
    IN [allowed |-> new.count <= Max(1, limit), local_counts |-> [lc EXCEPT ![key] = new]]

\* The except-branch with the fail_closed flag ignored.
allow_except_open(lc, fc, key, limit, window_seconds, t) ==
    allow_local(lc, key, limit, window_seconds, t)

\* The except-branch of allow (redis.RedisError was raised).
allow_except(lc, fc, key, limit, window_seconds, t) ==
    IF fc THEN [allowed |-> FALSE, local_counts |-> lc]
    ELSE allow_local(lc, key, limit, window_seconds, t)

\* The decision of the try-branch on the value INCR returned.
allow_count(count, limit) == count <= Max(1, limit)

\* allow(key, limit, window_seconds) run by one handler without another in
\* between; fault says where redis.RedisError is raised: "none", "incr"
\* (INCR fails) or "expire" (EXPIRE fails after INCR).
allow(bk, lc, fc, key, limit, window_seconds, fault, t) ==
    LET b1 == IF fault = "incr" THEN bk ELSE RedisIncr(bk, key, t)
        count == b1[key].count
        raised == fault = "incr" \/ (fault = "expire" /\ count = 1)
        b2 == IF count = 1 /\ ~raised THEN RedisExpire(b1, key, Max(1, window_seconds), t) ELSE b1
        l == allow_except(lc, fc, key, limit, window_seconds, t)
    IN IF ~raised
       THEN [allowed |-> allow_count(count, limit), buckets |-> b2, local_counts |-> lc]
       ELSE [allowed |-> l.allowed, buckets |-> b2, local_counts |-> l.local_counts]

(***************************************************************************)
(* server/db.py: session and ingest_request.                               *)
(***************************************************************************)
\* A session that keeps what was written before the error.
session_without_rollback(tx) ==
    [raised |-> tx.raised, ret |-> tx.ret,
     nonces |-> tx.nonces, devices |-> tx.devices, events |-> tx.events]

\* ServerDatabase.session: a transaction tx = [ret, raised, nonces, devices,
\* events] commits what it wrote, or rolls everything back when it raised.
session(tx) ==
    IF tx.raised
    THEN [raised |-> TRUE, ret |-> 0,
          nonces |-> nonces, devices |-> devices, events |-> events]
    ELSE [raised |-> FALSE, ret |-> tx.ret,
          nonces |-> tx.nonces, devices |-> tx.devices, events |-> tx.events]

SameNonce(n, request) ==
    n.org_id = request.org_id /\ n.device_id = request.device_id /\ n.nonce = request.nonce

NonceRow(request, seen_at, expires_at) ==
    [org_id |-> request.org_id, device_id |-> request.device_id, nonce |-> request.nonce,
     seen_at |-> seen_at, expires_at |-> expires_at]

EventRow(request, event) ==
    [org_id |-> request.org_id, device_id |-> request.device_id,
     platform |-> event.platform, title |-> event.title, details |-> event.details]

\* The row of the first event only.
EventRows_first_only(request, k) ==
    IF k = 0 THEN <<>> ELSE <<EventRow(request, request.events[1])>>

RECURSIVE EventRows(_, _)
EventRows(request, k) ==
    IF k = 0 THEN <<>>
    ELSE Append(EventRows(request, k - 1), EventRow(request, request.events[k]))

\* The device rows after the upsert of ingest_request.
UpsertDevice(devs, request, seen_at) ==
    LET found == {d \in devs : d.org_id = request.org_id /\ d.device_id = request.device_id}
        inferred_platform == IF Len(request.events) > 0 THEN request.events[1].platform ELSE "unknown"
    IN IF found = {}
       THEN devs \cup {[org_id |-> request.org_id, device_id |-> request.device_id,
                        platform |-> inferred_platform, agent_version |-> request.agent_version,
                        first_seen_at |-> seen_at, last_seen_at |-> seen_at]}
       ELSE (devs \ found) \cup
            {[d EXCEPT !.platform = inferred_platform,
                       !.agent_version = request.agent_version,
                       !.last_seen_at = seen_at] : d \in found}

\* ingest_request with the device upsert done ahead of the replay check.
ingest_request_upsert_first(request, seen_at, window_seconds, db_fault) ==
    LET expires_at == seen_at + window_seconds
        org == get_org(request.org_id)
        kept == {n \in nonces : ~(n.expires_at < seen_at)}
        replay == \E n \in kept : SameNonce(n, request)
        with_nonce == kept \cup {NonceRow(request, seen_at, expires_at)}
        with_device == UpsertDevice(devices, request, seen_at)
        with_events == events \o EventRows(request, Len(request.events))
    IN IF org = {} \/ \E o \in org : ~o.is_active
       THEN session([ret |-> -1, raised |-> FALSE,
                     nonces |-> nonces, devices |-> devices, events |-> events])
       ELSE IF replay
       THEN session([ret |-> 0, raised |-> FALSE,
                     nonces |-> kept, devices |-> with_device, events |-> events])
       ELSE session([ret |-> Len(request.events), raised |-> db_fault # "none",
                     nonces |-> with_nonce,
                     devices |-> IF db_fault = "device" THEN devices ELSE with_device,
                     events |-> IF db_fault = "none" THEN with_events ELSE events])

\* ingest_request(request, seen_at, window_seconds); db_fault says which write
\* fails when the session is flushed: "none", "device" or "event".
ingest_request(request, seen_at, window_seconds, db_fault) ==
    LET expires_at == seen_at + window_seconds
        org == get_org(request.org_id)
        kept == {n \in nonces : ~(n.expires_at < seen_at)}
        replay == \E n \in kept : SameNonce(n, request)
        with_nonce == kept \cup {NonceRow(request, seen_at, expires_at)}
        with_device == UpsertDevice(devices, request, seen_at)
        with_events == events \o EventRows(request, Len(request.events))
    IN IF org = {} \/ \E o \in org : ~o.is_active
       THEN session([ret |-> -1, raised |-> FALSE,
                     nonces |-> nonces, devices |-> devices, events |-> events])
       ELSE IF replay
       THEN session([ret |-> 0, raised |-> FALSE,
                     nonces |-> kept, devices |-> devices, events |-> events])
       ELSE session([ret |-> Len(request.events), raised |-> db_fault # "none",
                     nonces |-> with_nonce,
                     devices |-> IF db_fault = "device" THEN devices ELSE with_device,
                     events |-> IF db_fault = "none" THEN with_events ELSE events])

(***************************************************************************)
(* server/security.py: parse_timestamp_header.                             *)
(***************************************************************************)
parse_timestamp_header(raw, window_seconds, t) ==
    IF raw.kind # "int" THEN [status |-> 400, seen_at |-> 0]
    ELSE IF Abs(t - raw.value) > window_seconds THEN [status |-> 401, seen_at |-> 0]
    ELSE [status |-> 200, seen_at |-> raw.value]

(***************************************************************************)
(* server/tasks.py: enqueue_compute.                                       *)
(***************************************************************************)
enqueue_compute(q, org_id, device_id, broker_fault) ==
    IF broker_fault THEN q ELSE Append(q, <<org_id, device_id>>)

(***************************************************************************)
(* server/ingest.py: POST /ingest.                                         *)
(* A request is [org, device, ts, nonce, sig, body]; fault is the          *)
(* component that fails while this request is handled.                     *)
(***************************************************************************)
Reject(status, reason, stage, bk, lc) ==
    [status |-> status, reason |-> reason, stage |-> stage,
     nonces |-> nonces, devices |-> devices, events |-> events,
     buckets |-> bk, local_counts |-> lc, task_queue |-> task_queue]

FirstMissingHeader(req) ==
    IF req.org = "" THEN "X-EM-Org"
    ELSE IF req.device = "" THEN "X-EM-Device"
    ELSE IF req.ts = NoTs THEN "X-EM-Timestamp"
    ELSE IF req.nonce = "" THEN "X-EM-Nonce"
    ELSE IF req.sig = NoSig THEN "X-EM-Signature"
    ELSE ""

\* The tables are as the session of ingest_request left them.
Stored(out, db) ==
    [out EXCEPT !.nonces = db.nonces, !.devices = db.devices, !.events = db.events]

\* From the database call on; db is what ingest_request returned.
ingest_store(req, fault, bk, lc, db) ==
    IF db.raised
    THEN Stored(Reject(500, "storage_error", 11, bk, lc), db)   \* re-raised by session
    ELSE IF db.ret = -1
    THEN Stored(Reject(401, "org_invalid", 11, bk, lc), db)
    ELSE IF db.ret = 0
    THEN Stored(Reject(409, "replay_nonce", 11, bk, lc), db)
    ELSE [status |-> 200, reason |-> "accepted", stage |-> 12,
          nonces |-> db.nonces, devices |-> db.devices, events |-> db.events,
          buckets |-> bk, local_counts |-> lc,
          task_queue |-> enqueue_compute(task_queue, req.body.doc.org_id,
                                         req.body.doc.device_id, fault = "broker"),
          answer |-> [accepted |-> db.ret, rejected |-> 0]]

\* The checks of ingest; org is what get_org returned, lim what the limiter
\* returned, valid_sig what verify_request returned or raised, ts what
\* parse_timestamp_header returned or raised.
ingest_checks(req, fault, org, lim, valid_sig, ts) ==
    LET missing == FirstMissingHeader(req)
        the_org == CHOOSE o \in org : TRUE
        bk == lim.buckets
        lc == lim.local_counts
        length == Len(req.body.raw)
        seen_at == ts.seen_at
        payload == req.body.doc
    IN IF missing # "" THEN Reject(400, "missing_header", 1, buckets, local_counts)
       ELSE IF org = {} \/ ~the_org.is_active
           THEN Reject(401, "unknown_org", 2, buckets, local_counts)
       ELSE IF ~lim.allowed THEN Reject(429, "rate_limit", 3, bk, lc)
       ELSE IF length = 0 THEN Reject(400, "empty_body", 4, bk, lc)
       ELSE IF length > max_payload_bytes THEN Reject(413, "payload_too_large", 4, bk, lc)
       ELSE IF req.org \notin DOMAIN signing_keys
           THEN Reject(401, "missing_signing_key", 5, bk, lc)
       ELSE IF hash_secret(signing_keys[req.org]) # the_org.api_key_hash
           THEN Reject(401, "org_key_mismatch", 5, bk, lc)
       ELSE IF valid_sig = "SignatureError" THEN Reject(401, "signature_error", 6, bk, lc)
       ELSE IF valid_sig \notin {"true", "false"}
           THEN Reject(500, valid_sig, 6, bk, lc)      \* not caught: unhandled error
       ELSE IF valid_sig = "false" THEN Reject(401, "invalid_signature", 6, bk, lc)
       ELSE IF ts.status = 400 THEN Reject(400, "invalid_timestamp_header", 7, bk, lc)
       ELSE IF ts.status = 401 THEN Reject(401, "timestamp_window", 7, bk, lc)
       ELSE IF ~payload.valid THEN Reject(422, "invalid_schema", 8, bk, lc)
       ELSE IF payload.org_id # req.org THEN Reject(400, "org_mismatch", 9, bk, lc)
       ELSE IF payload.device_id # req.device THEN Reject(400, "device_mismatch", 9, bk, lc)
       ELSE IF payload.nonce # req.nonce THEN Reject(400, "nonce_mismatch", 9, bk, lc)
       ELSE IF Abs(seen_at - payload.sent_at) > replay_window_seconds
           THEN Reject(401, "timestamp_skew", 10, bk, lc)
       ELSE ingest_store(req, fault, bk, lc,
                         ingest_request(payload, seen_at, replay_window_seconds,
                                        IF fault \in {"device", "event"} THEN fault ELSE "none"))

\* POST /ingest.  Each call is made when the code reaches it.
ingest(req, fault) ==
    ingest_checks(req, fault, get_org(req.org),
                  allow(buckets, local_counts, fail_closed, req.org,
                        orgs[req.org].ingest_rate_limit_per_minute, RateWindow,
                        IF fault \in {"incr", "expire"} THEN fault ELSE "none", now),
                  verify_request(req.body, req, signing_keys[req.org]),
                  parse_timestamp_header(req.ts, replay_window_seconds, now))

(***************************************************************************)
(* Requests offered to the server.  A well-formed request of a client      *)
(* that signs with key is built first; Defects then damage it the way a    *)
(* broken or hostile client would.                                         *)
(***************************************************************************)
Platforms == {"macos", "windows"}

\* An event envelope; details stands for details_json.
EventWith(platform, title, details) ==
    [platform |-> platform, title |-> title, details |-> details]

Event(platform, title) == EventWith(platform, title, 0)

\* The events a client sends under a nonce: a nonce names one batch.
EventsOf(nonce) ==
    IF nonce = "n1" THEN <<Event("macos", "t1")>>
    ELSE <<Event("windows", "t2"), Event("macos", "t1")>>

Doc(org, device, nonce, sent_at, evs) ==
    [valid |-> TRUE, org_id |-> org, device_id |-> device, nonce |-> nonce,
     sent_at |-> sent_at, agent_version |-> "v" \o device, events |-> evs]

\* Byte strings used as bodies: "[1]", "[1", "7", "[1" + 0xDD, "[1     ]".
RawOk == <<91, 49, 93>>
RawBadJson == <<91, 49>>
RawScalar == <<55>>
RawBadUtf8 == <<91, 49, 221>>
RawBig == <<91, 49, 32, 32, 32, 32, 32, 93>>

ContentDefects == {"empty_body", "big_body", "bad_json", "bad_utf8", "scalar",
                   "schema", "org_mismatch", "device_mismatch", "nonce_mismatch", "skew"}
HeaderDefects == {"no_org", "no_device", "no_ts", "no_nonce", "no_sig",
                  "bad_sig", "wrong_key", "ts_text", "ts_old"}
Defects == ContentDefects \cup HeaderDefects

OtherOf(x, S) == CHOOSE y \in S : y # x

MkBody(org, device, nonce, h, evs, D) ==
    [raw |-> IF "empty_body" \in D THEN <<>>
             ELSE IF "big_body" \in D THEN RawBig
             ELSE IF "bad_json" \in D THEN RawBadJson
             ELSE IF "bad_utf8" \in D THEN RawBadUtf8
             ELSE IF "scalar" \in D THEN RawScalar
             ELSE RawOk,
     doc |-> [Doc(IF "org_mismatch" \in D THEN OtherOf(org, OrgIds) ELSE org,
                  IF "device_mismatch" \in D THEN "dx" ELSE device,
                  IF "nonce_mismatch" \in D THEN OtherOf(nonce, NonceIds) ELSE nonce,
                  IF "skew" \in D THEN h + replay_window_seconds + 1 ELSE h,
                  evs)
              EXCEPT !.valid = "schema" \notin D /\ D \cap {"empty_body", "bad_json", "bad_utf8", "scalar"} = {}]]

MkRequest(org, device, nonce, h, evs, D) ==
    LET body == MkBody(org, device, nonce, h, evs, D)
        key == IF "wrong_key" \in D THEN "k-bad" ELSE KeyOf(org)
        signed == sign_request(body, key)
        sig == IF signed.tag = "ok" THEN signed.sig
               ELSE hmac_hexdigest(key, RawOk, body.doc)
    IN [org |-> IF "no_org" \in D THEN "" ELSE org,
        device |-> IF "no_device" \in D THEN "" ELSE device,
        ts |-> IF "no_ts" \in D THEN NoTs
               ELSE IF "ts_text" \in D THEN [kind |-> "text", value |-> 0]
               ELSE IF "ts_old" \in D THEN [kind |-> "int", value |-> h - replay_window_seconds - 1]
               ELSE [kind |-> "int", value |-> h],
        nonce |-> IF "no_nonce" \in D THEN "" ELSE nonce,
        sig |-> IF "no_sig" \in D THEN NoSig
                ELSE IF "bad_sig" \in D THEN [sig EXCEPT !.flip = 1]
                ELSE sig,
        body |-> body]

\* Requests of well-behaved clients of the two working orgs, by the time t of
\* the server at which they arrive: the client's clock lies within the replay
\* window of the server's.
GoodRequestsAt ==
    [t \in 0..MaxTime |->
        {MkRequest(o, d, n, h, EventsOf(n), {}) :
            o \in OrgIds, d \in DeviceIds, n \in NonceIds,
            h \in (t - replay_window_seconds)..(t + replay_window_seconds)}]

\* Damaged requests: every single defect, every pair of defects of different
\* stages, and requests for an inactive org and for an org without a row.
StageDefects == {"no_nonce", "empty_body", "bad_sig", "bad_json", "ts_old", "schema",
                 "device_mismatch", "skew"}
DefectSets == {{a} : a \in Defects} \cup {{a, b} : a \in StageDefects, b \in StageDefects}

BadRequestsAt ==
    [t \in 0..MaxTime |->
        {MkRequest("o1", "d1", "n1", t, EventsOf("n1"), D) : D \in DefectSets}
        \cup {MkRequest(o, "d1", "n1", t, EventsOf("n1"), D) :
                o \in {"o3", "ox"}, D \in {{}, {"bad_json"}, {"no_sig"}}}]

Faults == {"incr", "expire", "device", "event", "broker"}

(***************************************************************************)
(* The stages of the pipeline as the specification lists them, each as a   *)
(* condition on the request and the state in which it arrives, and the     *)
(* status the specification gives to each stage.                           *)
(***************************************************************************)
Triple(org, device, nonce) == <<org, device, nonce>>

StageViolated(req, k) ==
    LET org == get_org(req.org)
        the_org == CHOOSE o \in org : TRUE
        p == body_payload(req.body)
        doc == req.body.doc
    IN CASE k = 1 -> \E v \in {req.org, req.device, req.nonce} : v = ""
                     \/ req.ts = NoTs \/ req.sig = NoSig
         [] k = 2 -> org = {} \/ ~the_org.is_active
         [] k = 3 -> /\ org # {}
                     /\ ~allow(buckets, local_counts, fail_closed, req.org,
                               the_org.ingest_rate_limit_per_minute, RateWindow,
                               "none", now).allowed
         [] k = 4 -> Len(req.body.raw) = 0 \/ Len(req.body.raw) > max_payload_bytes
         [] k = 5 -> \/ req.org \notin DOMAIN signing_keys
                     \/ org = {}
                     \/ hash_secret(signing_keys[req.org]) # the_org.api_key_hash
         [] k = 6 -> \/ p.tag # "ok"
                     \/ req.org \notin DOMAIN signing_keys
                     \/ req.sig # hmac_hexdigest(signing_keys[req.org], p.canon, doc)
         [] k = 7 -> req.ts.kind # "int" \/ Abs(now - req.ts.value) > replay_window_seconds
         [] k = 8 -> ~doc.valid
         [] k = 9 -> doc.org_id # req.org \/ doc.device_id # req.device \/ doc.nonce # req.nonce
         [] k = 10 -> Abs(req.ts.value - doc.sent_at) > replay_window_seconds
         [] k = 11 -> \E n \in nonces :
                        /\ Triple(n.org_id, n.device_id, n.nonce) = Triple(req.org, req.device, req.nonce)
                        /\ n.expires_at >= now
         [] OTHER -> FALSE

\* The earliest violated stage from stage k on; 12 when the request passes
\* every stage.
RECURSIVE FirstViolatedFrom(_, _)
FirstViolatedFrom(req, k) ==
    IF k > 11 THEN 12
    ELSE IF StageViolated(req, k) THEN k
    ELSE FirstViolatedFrom(req, k + 1)

FirstViolated(req) == FirstViolatedFrom(req, 1)

StageStatus(req, k) ==
    CASE k = 1 -> 400
      [] k = 2 -> 401
      [] k = 3 -> 429
      [] k = 4 -> IF Len(req.body.raw) = 0 THEN 400 ELSE 413
      [] k = 5 -> 401
      [] k = 6 -> 401
      [] k = 7 -> IF req.ts.kind # "int" THEN 400 ELSE 401
      [] k = 8 -> 422
      [] k = 9 -> 400
      [] k = 10 -> 401
      [] k = 11 -> 409
      [] OTHER -> 200

(***************************************************************************)
(* The server: one action per request handled, and the passing of time.    *)
(***************************************************************************)
\* The window of an earlier accepted request is still open.
WindowOpen(a, t) == t <= a.expires_at /\ t <= a.at + replay_window_seconds

NoResp == [status |-> 0, reason |-> "", stage |-> 0, key |-> Triple("", "", ""), ts |-> 0,
           persisted |-> 0, replays_open |-> FALSE, fault |-> "none",
           mutated |-> "none", verify |-> "",
           first_violated |-> 0, expected_status |-> 0]

Runners == {"w1", "w2", "sched"}

RefreshHandlers == {"h1", "h2"}

\* No user has logged in.
NoAuth == [tokens |-> {}, handlers |-> [h \in RefreshHandlers |-> [pc |-> "idle"]],
           issued |-> 0, replies |-> {}]

IdleRunner == [pc |-> "idle"]

\* The local watchdog after construction: table insights empty, the deque
\* of FileWatchService and the debounce table of its handler empty.
NoWatchdog ==
    [insights |-> {}, recorded |-> 0, last |-> [op |-> "none"],
     queue |-> <<>>, seen |-> {}, arrived |-> 0, drained |-> <<>>]

\* No mtime: the file does not exist, or the state file has no entry for it.
NoMtime == 0

WatchedPaths == {"p1", "p2", "p3"}

\* The agent's filewatch collector before its first cycle: no state file,
\* the watched directory empty.
NoFilewatch ==
    [files |-> [p \in WatchedPaths |-> NoMtime], state |-> [p \in WatchedPaths |-> NoMtime],
     reported |-> {}, cycles |-> 0, last |-> <<>>]

\* No ingest_request is under way in the process.
NoSession == [pc |-> "idle"]

\* No compute has run and none is under way.
ComputeIdle ==
    /\ insights = {}
    /\ metrics = {}
    /\ runners = [r \in Runners |-> IdleRunner]
    /\ handler = [pc |-> "idle"]
    /\ task_reqs = <<>>
    /\ histories = {}
    /\ computes = 0
    /\ timeouts = 0
    /\ auth = NoAuth
    /\ watchdog = NoWatchdog
    /\ sessions = [w \in Workers |-> NoSession]
    /\ filewatch = NoFilewatch

ServerInit ==
    /\ ComputeIdle
    /\ now = 0
    /\ nonces = {}
    /\ devices = {}
    /\ events = <<>>
    /\ buckets = [o \in AllOrgRows |-> EmptyBucket]
    /\ local_counts = [o \in AllOrgRows |-> EmptyLocal]
    /\ task_queue = <<>>
    /\ resp = NoResp
    /\ accepted = {}

Handle(req, fault, mutated) ==
    \E out \in {ingest(req, fault)}, first \in {FirstViolated(req)} :
    LET key == Triple(req.org, req.device, req.nonce)
    IN /\ out.status = 200 => Len(out.events) <= MaxEvents
       /\ \A k \in DOMAIN out.buckets : out.buckets[k].count <= MaxBucketCount
       /\ \A k \in DOMAIN out.local_counts : out.local_counts[k].count <= MaxBucketCount
       /\ nonces' = out.nonces
       /\ devices' = out.devices
       /\ events' = out.events
       /\ buckets' = out.buckets
       /\ local_counts' = out.local_counts
       /\ task_queue' = out.task_queue
       /\ resp' = [status |-> out.status, reason |-> out.reason, stage |-> out.stage,
                   key |-> key, ts |-> req.ts.value,
                   persisted |-> Len(out.events) - Len(events),
                   replays_open |-> \E a \in accepted :
                        /\ Triple(a.org_id, a.device_id, a.nonce) = key
                        /\ a.request = req
                        /\ WindowOpen(a, now),
                   fault |-> fault,
                   mutated |-> mutated,
                   verify |-> IF req.org \in DOMAIN signing_keys
                              THEN verify_request(req.body, req, signing_keys[req.org])
                              ELSE "no key",
                   first_violated |-> first,
                   expected_status |-> StageStatus(req, first)]
       /\ accepted' = IF out.status = 200
                      THEN accepted \cup {[org_id |-> req.org, device_id |-> req.device,
                                           nonce |-> req.nonce, request |-> req, at |-> now,
                                           expires_at |-> req.ts.value + replay_window_seconds,
                                           answer |-> out.answer]}
                      ELSE accepted
       /\ UNCHANGED <<now, fail_closed, signing_keys>>

\* POST /ingest with a request of a well-behaved client.
Ingest ==
    /\ \E req \in GoodRequestsAt[now] : Handle(req, "none", "none")
    /\ UNCHANGED <<limiterVars, agentVars, computeVars>>

Tick ==
    /\ now < MaxTime
    /\ now' = now + 1
    /\ buckets' = PurgeBuckets(buckets, now + 1)
    /\ UNCHANGED <<nonces, devices, events, local_counts, fail_closed, signing_keys,
                   task_queue, resp, accepted>>
    /\ UNCHANGED <<limiterVars, agentVars, computeVars>>

\* No call of allow is under way in any server process.
LimiterIdle ==
    /\ lim_pc = [w \in Workers |-> [pc |-> "idle", org |-> ""]]
    /\ worker_local = [w \in Workers |-> [o \in AllOrgRows |-> EmptyLocal]]
    /\ passed = [o \in AllOrgRows |-> 0]
    /\ lim_last = [org |-> "", allowed |-> FALSE, error |-> FALSE, count |-> 0, errors |-> 0]

\* The spool of an agent that was just installed.
\* run_daemon was not called.
NoDaemon == [pc |-> "off", stop |-> FALSE, waited |-> 0, cycles |-> 0, last |-> [kind |-> "none"]]

\* No function is being called.
NoCall == [fn |-> "", done |-> TRUE]

SpoolIdle ==
    /\ daemon = NoDaemon
    /\ spool = {}
    /\ pending = <<>>
    /\ counts = [accepted |-> 0, failed |-> 0]
    /\ attempts = 0
    /\ enqueued = 0
    /\ spool_last = [op |-> "", dropped |-> {}]

\* No call of split_batches.
NoSplit == [events |-> <<>>, max_batch_events |-> 1, batches |-> <<>>, done |-> TRUE]

AgentIdle ==
    /\ SpoolIdle
    /\ split = NoSplit
    /\ call = NoCall

Init ==
    /\ ServerInit
    /\ fail_closed = TRUE
    /\ signing_keys = SeededKeys
    /\ LimiterIdle
    /\ AgentIdle

Next == Ingest \/ Tick

Spec == Init /\ [][Next]_vars

(***************************************************************************)
(* The same server offered damaged requests: the requests of one client    *)
(* (o1, d1, n1) and every damaged variant of them.                         *)
(***************************************************************************)
OneClientRequestsAt ==
    [t \in 0..MaxTime |-> {MkRequest("o1", "d1", "n1", t, EventsOf("n1"), {})}]

PipelineInit ==
    /\ ServerInit
    /\ fail_closed = TRUE
    /\ signing_keys \in {SeededKeys, DriftedKeys, MissingKeys}
    /\ LimiterIdle
    /\ AgentIdle

IngestOne ==
    /\ \E req \in OneClientRequestsAt[now] : Handle(req, "none", "none")
    /\ UNCHANGED <<limiterVars, agentVars, computeVars>>

\* POST /ingest while Redis, the database or the task broker fails.
IngestOneFault ==
    /\ \E req \in OneClientRequestsAt[now], fault \in Faults : Handle(req, fault, "none")
    /\ UNCHANGED <<limiterVars, agentVars, computeVars>>

\* POST /ingest with a damaged request.
IngestBad ==
    /\ \E req \in BadRequestsAt[now] : Handle(req, "none", "none")
    /\ UNCHANGED <<limiterVars, agentVars, computeVars>>

NextPipeline == IngestOne \/ IngestOneFault \/ IngestBad \/ Tick

SpecPipeline == PipelineInit /\ [][NextPipeline]_vars

(***************************************************************************)
(* The same server offered signed requests and copies of them in which one *)
(* bit of the body or of the signature header is inverted.                 *)
(***************************************************************************)
\* Bodies "[1]", "[1<TAB>]" and "[ 7]".
RawTab == <<91, 49, 9, 93>>
RawSpace == <<91, 32, 55, 93>>
SampleBodies == {RawOk, RawTab, RawSpace}

\* Bits of the signature text that are inverted: a low bit (another ASCII
\* character) and the high bit of a character.
SigFlips == {1, 8}

\* The request a client builds and signs for the body bytes raw.
MkSigned(org, device, nonce, h, evs, raw) ==
    [MkRequest(org, device, nonce, h, evs, {}) EXCEPT
        !.body = [raw |-> raw, doc |-> Doc(org, device, nonce, h, evs)],
        !.sig = sign_request([raw |-> raw, doc |-> Doc(org, device, nonce, h, evs)],
                             KeyOf(org)).sig]

\* The body with bit k of byte i inverted.  The bytes carry the same
\* document when they still parse to the same value.
MutateBody(body, i, k) ==
    [raw |-> FlipAt(body.raw, i, k),
     doc |-> IF body_payload([body EXCEPT !.raw = FlipAt(body.raw, i, k)]) = body_payload(body)
             THEN body.doc ELSE [body.doc EXCEPT !.valid = FALSE]]

SignedRequestsAt ==
    [t \in 0..MaxTime |->
        {MkSigned("o1", "d1", "n1", t, EventsOf("n1"), raw) : raw \in SampleBodies}]

BodyMutantsAt ==
    [t \in 0..MaxTime |->
        UNION {{[req EXCEPT !.body = MutateBody(req.body, i, k)] :
                    i \in 1..Len(req.body.raw), k \in 0..7} : req \in SignedRequestsAt[t]}]

SigMutantsAt ==
    [t \in 0..MaxTime |->
        {[req EXCEPT !.sig.flip = k] : req \in SignedRequestsAt[t], k \in SigFlips}]

IngestSigned ==
    /\ \E req \in SignedRequestsAt[now] : Handle(req, "none", "none")
    /\ UNCHANGED <<limiterVars, agentVars, computeVars>>

IngestBodyMutant ==
    /\ \E req \in BodyMutantsAt[now] : Handle(req, "none", "body")
    /\ UNCHANGED <<limiterVars, agentVars, computeVars>>

IngestSigMutant ==
    /\ \E req \in SigMutantsAt[now] : Handle(req, "none", "sig")
    /\ UNCHANGED <<limiterVars, agentVars, computeVars>>

NextSign == IngestSigned \/ IngestBodyMutant \/ IngestSigMutant \/ Tick

SpecSign == Init /\ [][NextSign]_vars

(***************************************************************************)
(* The rate limiter shared by several server processes.  Each process runs *)
(* allow for the request it handles: INCR and EXPIRE are two commands sent *)
(* to Redis, and the commands of other processes may come in between.      *)
(* _local_counts belongs to the process.                                   *)
(***************************************************************************)
LimitOf(o) == orgs[o].ingest_rate_limit_per_minute

\* What a call of allow leaves alone.
LimFrame ==
    /\ UNCHANGED <<nonces, devices, events, local_counts, signing_keys, task_queue,
                   resp, accepted>>
    /\ UNCHANGED <<agentVars, computeVars>>

\* allow returns: the request is let through or answered 429.
Decide(o, allowed, error, count) ==
    /\ passed' = IF allowed THEN [passed EXCEPT ![o] = @ + 1] ELSE passed
    /\ error => lim_last.errors < MaxRedisErrors
    /\ lim_last' = [org |-> o, allowed |-> allowed, error |-> error, count |-> count,
                    errors |-> lim_last.errors + (IF error THEN 1 ELSE 0)]

\* count = self.client.incr(bucket)
LimIncr(w, o) ==
    /\ lim_pc[w].pc = "idle"
    /\ \E b1 \in {RedisIncr(buckets, o, now)} :
         /\ b1[o].count <= MaxBucketCount
         /\ buckets' = b1
         /\ IF b1[o].count = 1
            THEN /\ lim_pc' = [lim_pc EXCEPT ![w] = [pc |-> "expire", org |-> o]]
                 /\ UNCHANGED <<passed, lim_last>>
            ELSE /\ lim_pc' = lim_pc
                 /\ Decide(o, allow_count(b1[o].count, LimitOf(o)), FALSE, b1[o].count)
    /\ UNCHANGED <<worker_local, now, fail_closed>>
    /\ LimFrame

\* self.client.expire(bucket, max(1, window_seconds)); return count <= max(1, limit)
LimExpire(w) ==
    /\ lim_pc[w].pc = "expire"
    /\ buckets' = RedisExpire(buckets, lim_pc[w].org, Max(1, RateWindow), now)
    /\ lim_pc' = [lim_pc EXCEPT ![w] = [pc |-> "idle", org |-> ""]]
    /\ Decide(lim_pc[w].org, allow_count(1, LimitOf(lim_pc[w].org)), FALSE, 1)
    /\ UNCHANGED <<worker_local, now, fail_closed>>
    /\ LimFrame

\* INCR raises redis.RedisError.
LimIncrError(w, o) ==
    /\ lim_pc[w].pc = "idle"
    /\ \E l \in {allow_except(worker_local[w], fail_closed, o, LimitOf(o), RateWindow, now)} :
         /\ l.local_counts[o].count <= MaxLocalCount
         /\ worker_local' = [worker_local EXCEPT ![w] = l.local_counts]
         /\ Decide(o, l.allowed, TRUE, 0)
    /\ UNCHANGED <<buckets, lim_pc, now, fail_closed>>
    /\ LimFrame

\* EXPIRE raises redis.RedisError: the key stays without a time to live.
LimExpireError(w) ==
    /\ lim_pc[w].pc = "expire"
    /\ \E l \in {allow_except(worker_local[w], fail_closed, lim_pc[w].org,
                              LimitOf(lim_pc[w].org), RateWindow, now)} :
         /\ l.local_counts[lim_pc[w].org].count <= MaxLocalCount
         /\ worker_local' = [worker_local EXCEPT ![w] = l.local_counts]
         /\ Decide(lim_pc[w].org, l.allowed, TRUE, 1)
    /\ lim_pc' = [lim_pc EXCEPT ![w] = [pc |-> "idle", org |-> ""]]
    /\ UNCHANGED <<buckets, now, fail_closed>>
    /\ LimFrame

\* No counter of the org is open at time t: the Redis key is gone and the
\* window of every process's local count is over.
WindowOver(o, t) ==
    /\ ~BucketLive(buckets[o], t)
    /\ \A w \in Workers : worker_local[w][o] = EmptyLocal \/ t >= worker_local[w][o].reset_at

LimTick ==
    /\ now < MaxTime
    /\ now' = now + 1
    /\ buckets' = PurgeBuckets(buckets, now + 1)
    /\ passed' = [o \in AllOrgRows |-> IF WindowOver(o, now + 1) THEN 0 ELSE passed[o]]
    /\ UNCHANGED <<lim_pc, worker_local, lim_last, fail_closed>>
    /\ LimFrame

LimiterInit ==
    /\ ServerInit
    /\ fail_closed \in BOOLEAN
    /\ signing_keys = SeededKeys
    /\ LimiterIdle
    /\ AgentIdle

NextLimiter ==
    \/ \E w \in Workers, o \in OrgIds : LimIncr(w, o)
    \/ \E w \in Workers : LimExpire(w)
    \/ \E w \in Workers, o \in OrgIds : LimIncrError(w, o)
    \/ \E w \in Workers : LimExpireError(w)
    \/ LimTick

SpecLimiter == LimiterInit /\ [][NextLimiter]_vars

(***************************************************************************)
(* agent/spool.py.  A row of spool_batches is [id, batch, created_at,      *)
(* retry_count, next_attempt_at, delay]: batch names the events of the     *)
(* row, delay is history (the backoff of the last failure, 0 before the    *)
(* first).  The agent's clock is now.                                      *)
(***************************************************************************)
SendLimit == 20

\* cursor.lastrowid of an INTEGER PRIMARY KEY: one more than the largest id.
NextRowId(sp) ==
    IF sp = {} THEN 1 ELSE (CHOOSE i \in {r.id : r \in sp} : \A r \in sp : r.id <= i) + 1

\* ORDER BY created_at DESC LIMIT n.
DropNewest(sp, n) ==
    {D \in SUBSET sp : /\ Cardinality(D) = n
                        /\ \A d \in D, r \in sp \ D : d.created_at >= r.created_at}

\* SELECT id FROM spool_batches ORDER BY created_at ASC LIMIT n: the sets of
\* rows the query may return (rows of equal created_at come in any order).
DropOldest(sp, n) ==
    {D \in SUBSET sp : /\ Cardinality(D) = n
                        /\ \A d \in D, r \in sp \ D : d.created_at <= r.created_at}

\* enforce_limit: the sets of rows it may delete.
enforce_limit(sp, cap) ==
    IF Cardinality(sp) <= cap THEN {{}} ELSE DropOldest(sp, Cardinality(sp) - cap)

\* The row enqueue inserts for a non-empty list of events.
NewRow(sp, batch, t) ==
    [id |-> NextRowId(sp), batch |-> batch, created_at |-> t, retry_count |-> 0,
     next_attempt_at |-> t, delay |-> 0, failed_at |-> t]

\* The rows in ascending order of id.
RECURSIVE OrderById(_)
OrderById(rows) ==
    IF rows = {} THEN <<>>
    ELSE LET first == CHOOSE r \in rows : \A x \in rows : r.id <= x.id
         IN <<first>> \o OrderById(rows \ {first})

\* SpoolBatch without the events after the first.
SpoolBatch_first_event(row) ==
    [batch_id |-> row.id, events |-> <<Head(row.batch)>>, retry_count |-> row.retry_count]

\* events_json was written by enqueue from validated envelopes: every item
\* loads and validates again.
SpoolBatch(row) == [batch_id |-> row.id, events |-> row.batch, retry_count |-> row.retry_count]

\* due_batches without the WHERE clause.
due_batches_unfiltered(sp, t, limit) ==
    LET due == OrderById(sp)
    IN [i \in 1..Min(limit, Len(due)) |-> SpoolBatch(due[i])]

\* due_batches(limit)
due_batches(sp, t, limit) ==
    LET due == OrderById({r \in sp : r.next_attempt_at <= t})
    IN [i \in 1..Min(limit, Len(due)) |-> SpoolBatch(due[i])]

\* DELETE with the comparison of the id turned into "up to".
mark_sent_up_to(sp, batch_id) == {r \in sp : r.id > batch_id}

mark_sent(sp, batch_id) == {r \in sp : r.id # batch_id}

\* mark_failed with the backoff computed from the count before the failure.
mark_failed_stale(sp, batch_id, retry_count, t) ==
    {IF r.id = batch_id
     THEN [r EXCEPT !.retry_count = @ + 1,
                    !.next_attempt_at = t + Min(300, Max(2, Pow2(retry_count - 1))),
                    !.delay = Min(300, Max(2, Pow2(retry_count - 1))),
                    !.failed_at = t]
     ELSE r : r \in sp}

mark_failed(sp, batch_id, retry_count, t) ==
    {IF r.id = batch_id
     THEN [r EXCEPT !.retry_count = @ + 1,
                    !.next_attempt_at = t + Min(300, Max(2, Pow2(retry_count))),
                    !.delay = Min(300, Max(2, Pow2(retry_count))),
                    !.failed_at = t]
     ELSE r : r \in sp}

(***************************************************************************)
(* agent/sender.py and agent/runtime.py: the agent of device d1 of org o1. *)
(* run_once enqueues what was collected and then runs send_due, which      *)
(* posts the due batches one after the other.                              *)
(***************************************************************************)
\* Sizes in bytes.  A request body is the envelope (org, device, agent
\* version, nonce of 32 characters), sent_at, and the events separated by
\* commas.  sent_at is the clock reading of the moment the body is built: 20
\* characters when its microsecond is 0, 27 otherwise.
MAX_PAYLOAD_BYTES == 50
EnvelopeBytes == 4
SentAtLens == {20, 27}
EventSizes == {8, 10, 30}

\* An event the agent collected: id names it, size is the length of its
\* canonical JSON.
AgentEvent(id, size) == [id |-> id, size |-> size]

RECURSIVE SumSizes(_)
SumSizes(evs) == IF evs = <<>> THEN 0 ELSE Head(evs).size + SumSizes(Tail(evs))

\* len(canonical_json_bytes(IngestRequest(..., events=evs))) for a sent_at of
\* sent_at_len characters.
request_size(evs, sent_at_len) ==
    EnvelopeBytes + sent_at_len + SumSizes(evs) + Max(0, Len(evs) - 1)

\* secrets.token_hex(16): a value not drawn before.
token_hex(k) == "a" \o ToString(k)

\* The events of a batch as the request carries them.
EventsOfBatch(evs) == [i \in 1..Len(evs) |-> Event("macos", "b" \o ToString(evs[i].id))]

\* _build_payload: a new nonce, sent_at and timestamp header of the moment;
\* "ValueError" when the body is over the cap.
build_payload(batch, nonce, t, sent_at_len) ==
    IF request_size(batch.events, sent_at_len) > MAX_PAYLOAD_BYTES
    THEN [tag |-> "ValueError"]
    ELSE [tag |-> "ok",
          req |-> MkRequest("o1", "d1", nonce, t, EventsOfBatch(batch.events), {})]

\* The batches the agent spools as its k-th: small events (two when k is
\* odd, one when k is even), or one event that is over the cap by itself.
SpooledBatches(k) ==
    {IF k % 2 = 1 THEN <<AgentEvent(k, 8), AgentEvent(k + MaxBatches, 8)>>
                  ELSE <<AgentEvent(k, 8)>>,
     <<AgentEvent(k, 30)>>}

\* spooler.enqueue(batch), with the enforce_limit it ends in.
AgentEnqueue ==
    /\ pending = <<>>
    /\ enqueued < MaxBatches
    /\ \E batch \in SpooledBatches(enqueued + 1) :
        \E with_row \in {spool \cup {NewRow(spool, batch, now)}} :
         \E D \in enforce_limit(with_row, max_batches) :
            /\ spool' = with_row \ D
            /\ spool_last' = [op |-> "enqueue", dropped |-> D]
    /\ enqueued' = enqueued + 1
    /\ UNCHANGED <<pending, counts, attempts, split, daemon, call>>
    /\ UNCHANGED <<serverVars, limiterVars, computeVars>>

\* send_due: accepted = 0, failed = 0, batches = spooler.due_batches(limit)
SendDueBegin ==
    /\ pending = <<>>
    /\ due_batches(spool, now, SendLimit) # <<>>
    /\ pending' = due_batches(spool, now, SendLimit)
    /\ counts' = [accepted |-> 0, failed |-> 0]
    /\ spool_last' = [op |-> "due", dropped |-> {}, limit |-> SendLimit]
    /\ UNCHANGED <<spool, attempts, enqueued, split, daemon, call>>
    /\ UNCHANGED <<serverVars, limiterVars, computeVars>>

\* Seen without the look at the body of a 200.
Seen_status_only(outcome, status) ==
    IF outcome \in {"no_connection", "no_reply"} THEN "transport_error"
    ELSE IF status # 200 THEN "status"
    ELSE "ok"

\* What the agent sees of a post.  outcome: "no_connection" (httpx.HTTPError,
\* the request did not reach the server), "no_reply" (the server handled the
\* request, client.post raised httpx.HTTPError before the reply was read),
\* "garbled" (the reply arrived with a body that is not an IngestResponse),
\* "reply" (the reply arrived as the server sent it).
Seen(outcome, status) ==
    IF outcome \in {"no_connection", "no_reply"} THEN "transport_error"
    ELSE IF status # 200 THEN "status"
    ELSE IF outcome = "garbled" THEN "unparseable"
    ELSE "ok"

\* One turn of the loop of send_due, for the batch at the head of pending,
\* whose body could be built.
SendAttempt(outcome) ==
    /\ pending # <<>>
    /\ \E batch \in {Head(pending)}, sent_at_len \in SentAtLens :
        \E built \in {build_payload(batch, token_hex(attempts + 1), now, sent_at_len)} :
         /\ built.tag = "ok"
         /\ IF outcome = "no_connection"
            THEN UNCHANGED serverVars
            ELSE Handle(built.req, "none", "none")
         /\ \E seen \in {Seen(outcome, resp'.status)} :
              /\ spool' = IF seen = "ok"
                           THEN mark_sent(spool, batch.batch_id)
                           ELSE mark_failed(spool, batch.batch_id, batch.retry_count + 1, now)
              /\ counts' = IF seen = "ok"
                            THEN [counts EXCEPT !.accepted = @ + 1]
                            ELSE [counts EXCEPT !.failed = @ + 1]
              /\ spool_last' = [op |-> "send", dropped |-> {}, outcome |-> outcome,
                                 status |-> resp'.status, batch |-> batch]
    /\ pending' = Tail(pending)
    /\ attempts' = attempts + 1
    /\ UNCHANGED <<enqueued, split, daemon, call>>
    /\ UNCHANGED <<limiterVars, computeVars>>

\* The turn of the loop for a batch whose body cannot be built:
\* _build_payload raised, the batch is dropped.
SendBuildError ==
    /\ pending # <<>>
    /\ \E batch \in {Head(pending)}, sent_at_len \in SentAtLens :
         /\ build_payload(batch, token_hex(attempts + 1), now, sent_at_len).tag # "ok"
         /\ spool' = mark_sent(spool, batch.batch_id)
         /\ spool_last' = [op |-> "send", dropped |-> {}, outcome |-> "build_error",
                            status |-> 0, batch |-> batch]
    /\ counts' = [counts EXCEPT !.failed = @ + 1]
    /\ pending' = Tail(pending)
    /\ UNCHANGED <<attempts, enqueued, split, daemon, call>>
    /\ UNCHANGED <<serverVars, limiterVars, computeVars>>

\* client.post raised httpx.HTTPError before the server saw the request.
SendNoConnection ==
    /\ attempts < MaxAttempts
    /\ SendAttempt("no_connection")

\* The server handled the request; client.post raised (read timeout) or
\* response.json() / model_validate raised on what arrived.
SendNoReply ==
    /\ attempts < MaxAttempts
    /\ SendAttempt("no_reply")

\* The reply arrived as the server sent it.
SendReply ==
    /\ attempts < MaxAttempts
    /\ SendAttempt("reply")

\* The reply arrived; its body is not JSON or not an IngestResponse.
SendGarbled ==
    /\ attempts < MaxAttempts
    /\ SendAttempt("garbled")

NextAgent ==
    \/ AgentEnqueue \/ SendDueBegin \/ SendBuildError
    \/ SendNoConnection \/ SendNoReply \/ SendGarbled \/ SendReply \/ Tick

SpecAgent == Init /\ [][NextAgent]_vars

(***************************************************************************)
(* The agent alone, with a server it cannot reach: every send fails.  The  *)
(* agent sleeps until a batch is due, or a second longer.                  *)
(***************************************************************************)
EarliestDue == CHOOSE t \in {r.next_attempt_at : r \in spool} :
                    \A r \in spool : t <= r.next_attempt_at

Sleep ==
    /\ pending = <<>>
    /\ spool # {}
    /\ EarliestDue > now
    /\ now' \in {EarliestDue, EarliestDue + 1}
    /\ UNCHANGED <<nonces, devices, events, buckets, local_counts, fail_closed,
                   signing_keys, task_queue, resp, accepted>>
    /\ UNCHANGED <<limiterVars, agentVars, computeVars>>

SendFails ==
    /\ pending # <<>>
    /\ Head(pending).retry_count < MaxRetry
    /\ SendAttempt("no_connection")

BackoffEnqueue ==
    /\ enqueued < MaxBackoffBatches
    /\ AgentEnqueue

NextBackoff == BackoffEnqueue \/ SendDueBegin \/ SendFails \/ SendBuildError \/ Sleep

SpecBackoff == Init /\ [][NextBackoff]_vars

(***************************************************************************)
(* The spool under calls of due_batches with any limit, at any time, while *)
(* sends fail.                                                             *)
(***************************************************************************)
DueCall ==
    /\ pending = <<>>
    /\ \E limit \in 1..MaxLimit :
         /\ pending' = due_batches(spool, now, limit)
         /\ spool_last' = [op |-> "due", dropped |-> {}, limit |-> limit]
    /\ counts' = [accepted |-> 0, failed |-> 0]
    /\ UNCHANGED <<spool, attempts, enqueued, split, daemon, call>>
    /\ UNCHANGED <<serverVars, limiterVars, computeVars>>

DueSendFails ==
    /\ pending # <<>>
    /\ SendAttempt("no_connection")

AgentTick ==
    /\ now < MaxAgentTime
    /\ now' = now + 1
    /\ UNCHANGED <<nonces, devices, events, buckets, local_counts, fail_closed,
                   signing_keys, task_queue, resp, accepted>>
    /\ UNCHANGED <<limiterVars, agentVars, computeVars>>

NextDue == BackoffEnqueue \/ DueCall \/ DueSendFails \/ SendBuildError \/ AgentTick

SpecDue == Init /\ [][NextDue]_vars

(***************************************************************************)
(* The spool under calls of mark_sent with any batch id, of a row of the   *)
(* spool or not, once or again, between enqueues and failing sends.        *)
(***************************************************************************)
SpoolIds == 1..(MaxBackoffBatches + 1)

MarkSentCall ==
    /\ pending = <<>>
    /\ \E batch_id \in SpoolIds :
         /\ spool' = mark_sent(spool, batch_id)
         /\ spool_last' = [op |-> "mark_sent", dropped |-> {}, id |-> batch_id,
                           before |-> spool]
    /\ UNCHANGED <<pending, counts, attempts, enqueued, split, daemon, call>>
    /\ UNCHANGED <<serverVars, limiterVars, computeVars>>

NextMarkSent == BackoffEnqueue \/ MarkSentCall \/ DueCall \/ DueSendFails \/ AgentTick

SpecMarkSent == Init /\ [][NextMarkSent]_vars

(***************************************************************************)
(* agent/runtime.py: split_batches, applied to a list of collected events. *)
(* Every measurement of a candidate reads the clock for its sent_at.       *)
(***************************************************************************)
MAX_EVENTS_PER_BATCH == 3
MaxSplitEvents == 6

\* The loop of split_batches from the events not yet placed: the lists of
\* batches it can return.  Flushes before every event.
RECURSIVE split_loop_eager(_, _, _, _)
split_loop_eager(evs, current, batches, max_events) ==
    IF evs = <<>>
    THEN {IF current # <<>> THEN Append(batches, current) ELSE batches}
    ELSE UNION {
           LET candidate == Append(current, Head(evs))
               candidate_size == request_size(candidate, sent_at_len)
           IN IF current # <<>>
              THEN split_loop_eager(Tail(evs), <<Head(evs)>>, Append(batches, current), max_events)
              ELSE split_loop_eager(Tail(evs), candidate, batches, max_events)
           : sent_at_len \in SentAtLens}

\* The loop of split_batches from the events not yet placed: the lists of
\* batches it can return.
RECURSIVE split_loop(_, _, _, _)
split_loop(evs, current, batches, max_events) ==
    IF evs = <<>>
    THEN {IF current # <<>> THEN Append(batches, current) ELSE batches}
    ELSE UNION {
           LET candidate == Append(current, Head(evs))
               candidate_size == request_size(candidate, sent_at_len)
           IN IF current # <<>> /\ (Len(candidate) > max_events \/ candidate_size > MAX_PAYLOAD_BYTES)
              THEN split_loop(Tail(evs), <<Head(evs)>>, Append(batches, current), max_events)
              ELSE split_loop(Tail(evs), candidate, batches, max_events)
           : sent_at_len \in SentAtLens}

split_batches(evs, max_batch_events) ==
    IF evs = <<>> THEN {<<>>}
    ELSE split_loop(evs, <<>>, <<>>, Min(max_batch_events, MAX_EVENTS_PER_BATCH))

\* Lists of collected events: the i-th has id i and any of the sizes.
CollectedEvents ==
    UNION {{[i \in 1..n |-> AgentEvent(i, sizes[i])] : sizes \in [1..n -> EventSizes]}
           : n \in 0..MaxSplitEvents}

SplitInit ==
    /\ ServerInit
    /\ fail_closed = TRUE
    /\ signing_keys = SeededKeys
    /\ LimiterIdle
    /\ SpoolIdle
    /\ call = NoCall
    /\ \E evs \in CollectedEvents, n \in 1..MAX_EVENTS_PER_BATCH :
         split = [events |-> evs, max_batch_events |-> n, batches |-> <<>>, done |-> FALSE]

\* batches = split_batches(events, config)
SplitBatches ==
    /\ ~split.done
    /\ \E batches \in split_batches(split.events, split.max_batch_events) :
         split' = [split EXCEPT !.batches = batches, !.done = TRUE]
    /\ UNCHANGED <<spool, pending, counts, attempts, enqueued, spool_last, daemon, call>>
    /\ UNCHANGED <<serverVars, limiterVars, computeVars>>

NextSplit == SplitBatches

SpecSplit == SplitInit /\ [][NextSplit]_vars

(***************************************************************************)
(* agent/cli.py cmd_daemon and agent/runtime.py run_daemon: the daemon     *)
(* loop.  The server is what the agent sees of it: a post is answered 200  *)
(* with an IngestResponse, or it fails.  The clock is read at the          *)
(* beginning, in the middle and at the end of a wait.                      *)
(***************************************************************************)
\* interval_seconds of the configuration (5..3600), in seconds.
interval_seconds == 300

\* time.sleep(timeout): returns when the time is over.
time_sleep_returns(stop, waited, timeout) == waited >= timeout

\* stop_event.wait(timeout=...): returns when the event is set or the time
\* is over.
event_wait_returns(stop, waited, timeout) == stop \/ waited >= timeout

\* The outcomes of the posts of send_due.
PostOutcomes == {"ok", "transport_error"}

\* send_due: the loop over the due batches, outs[id] the outcome of the
\* post of batch id.
RECURSIVE send_due(_, _, _, _)
send_due(sp, batches, outs, t) ==
    IF batches = <<>> THEN sp
    ELSE LET batch == Head(batches)
         IN send_due(IF outs[batch.batch_id] = "ok"
                     THEN mark_sent(sp, batch.batch_id)
                     ELSE mark_failed(sp, batch.batch_id, batch.retry_count + 1, t),
                     Tail(batches), outs, t)

\* cmd_daemon: the stop event is created, the handlers of SIGINT and
\* SIGTERM are installed, run_daemon is called.
DaemonStart ==
    /\ daemon.pc = "off"
    /\ daemon' = [daemon EXCEPT !.pc = "test"]
    /\ UNCHANGED <<spool, pending, counts, attempts, enqueued, spool_last, split, call>>
    /\ UNCHANGED <<serverVars, limiterVars, computeVars>>

\* SIGINT or SIGTERM arrives: _stop sets the event.
Signal ==
    /\ daemon.pc \notin {"off", "returned"}
    /\ ~daemon.stop
    /\ daemon' = [daemon EXCEPT !.stop = TRUE]
    /\ UNCHANGED <<spool, pending, counts, attempts, enqueued, spool_last, split, call>>
    /\ UNCHANGED <<serverVars, limiterVars, computeVars>>

\* while not stop_event.is_set(): the event is set, run_daemon returns.
DaemonReturn ==
    /\ daemon.pc = "test"
    /\ daemon.stop
    /\ daemon' = [daemon EXCEPT !.pc = "returned"]
    /\ UNCHANGED <<spool, pending, counts, attempts, enqueued, spool_last, split, call>>
    /\ UNCHANGED <<serverVars, limiterVars, computeVars>>

\* while not stop_event.is_set(): the event is not set, run_once is called.
DaemonCycle ==
    /\ daemon.pc = "test"
    /\ ~daemon.stop
    /\ daemon.cycles < MaxCycles
    /\ daemon' = [daemon EXCEPT !.pc = "run", !.cycles = @ + 1]
    /\ UNCHANGED <<spool, pending, counts, attempts, enqueued, spool_last, split, call>>
    /\ UNCHANGED <<serverVars, limiterVars, computeVars>>

\* run_once up to send_due: nothing was collected, or one batch was, which
\* is enqueued; enforce_limit.
DaemonSpool ==
    /\ daemon.pc = "run"
    /\ \/ UNCHANGED <<spool, enqueued, spool_last>>
       \/ /\ enqueued < MaxDaemonBatches
          /\ \E with_row \in {spool \cup {NewRow(spool, <<AgentEvent(enqueued + 1, 8)>>, now)}} :
              \E D \in enforce_limit(with_row, max_batches) :
                 /\ spool' = with_row \ D
                 /\ spool_last' = [op |-> "enqueue", dropped |-> D]
          /\ enqueued' = enqueued + 1
    /\ daemon' = [daemon EXCEPT !.pc = "send"]
    /\ UNCHANGED <<pending, counts, attempts, split, call>>
    /\ UNCHANGED <<serverVars, limiterVars, computeVars>>

\* send_due, and the end of run_once: the summary is logged.
DaemonSendDue ==
    /\ daemon.pc = "send"
    /\ \E due \in {due_batches(spool, now, SendLimit)} :
        \E outs \in [{due[i].batch_id : i \in 1..Len(due)} -> PostOutcomes] :
          /\ spool' = send_due(spool, due, outs, now)
          /\ daemon' = [daemon EXCEPT !.pc = "wait", !.waited = 0,
                                      !.last = [kind |-> "sent", outcomes |-> outs]]
    /\ UNCHANGED <<pending, counts, attempts, enqueued, spool_last, split, call>>
    /\ UNCHANGED <<serverVars, limiterVars, computeVars>>

\* An exception of run_once that run_daemon does not catch.
DaemonCycleRaises_uncaught ==
    /\ daemon.pc \in {"run", "send"}
    /\ daemon' = [daemon EXCEPT !.pc = "returned", !.last = [kind |-> "raised"]]
    /\ UNCHANGED <<spool, pending, counts, attempts, enqueued, spool_last, split, call>>
    /\ UNCHANGED <<serverVars, limiterVars, computeVars>>

\* run_once raises (the collectors cannot be built, the spool database
\* fails): the transaction under way is rolled back, run_daemon logs the
\* exception.
DaemonCycleRaises ==
    /\ daemon.pc \in {"run", "send"}
    /\ daemon' = [daemon EXCEPT !.pc = "wait", !.waited = 0, !.last = [kind |-> "raised"]]
    /\ UNCHANGED <<spool, pending, counts, attempts, enqueued, spool_last, split, call>>
    /\ UNCHANGED <<serverVars, limiterVars, computeVars>>

\* stop_event.wait(timeout=config.interval_seconds) goes on waiting.
DaemonWaits ==
    /\ daemon.pc = "wait"
    /\ ~event_wait_returns(daemon.stop, daemon.waited, interval_seconds)
    /\ \E step \in {interval_seconds \div 2} :
         /\ now' = now + step
         /\ daemon' = [daemon EXCEPT !.waited = @ + step]
    /\ UNCHANGED <<nonces, devices, events, buckets, local_counts, fail_closed,
                   signing_keys, task_queue, resp, accepted>>
    /\ UNCHANGED <<spool, pending, counts, attempts, enqueued, spool_last, split, call>>
    /\ UNCHANGED <<limiterVars, computeVars>>

\* stop_event.wait returns.
DaemonWakes ==
    /\ daemon.pc = "wait"
    /\ event_wait_returns(daemon.stop, daemon.waited, interval_seconds)
    /\ daemon' = [daemon EXCEPT !.pc = "test"]
    /\ UNCHANGED <<spool, pending, counts, attempts, enqueued, spool_last, split, call>>
    /\ UNCHANGED <<serverVars, limiterVars, computeVars>>

NextDaemon ==
    \/ DaemonStart \/ Signal \/ DaemonReturn \/ DaemonCycle \/ DaemonSpool
    \/ DaemonSendDue \/ DaemonCycleRaises \/ DaemonWaits \/ DaemonWakes

\* The daemon's own steps are taken when they can be; a signal may never
\* come.
DaemonFairness ==
    /\ WF_vars(DaemonStart) /\ WF_vars(DaemonReturn) /\ WF_vars(DaemonCycle)
    /\ WF_vars(DaemonSpool \/ DaemonCycleRaises) /\ WF_vars(DaemonSendDue \/ DaemonCycleRaises)
    /\ WF_vars(DaemonWaits) /\ WF_vars(DaemonWakes)

SpecDaemon == Init /\ [][NextDaemon]_vars /\ DaemonFairness

(***************************************************************************)
(* The daemon with a server that is reachable and answers every post: 200  *)
(* for a batch it accepts, a rejection status (413 for a body over its own *)
(* payload cap) for the others, at every attempt.  No signal comes and no  *)
(* cycle raises.  The limit of send_due (20) and the cap of the spool are  *)
(* scaled down together, so that the due rows can fill the limit.          *)
(***************************************************************************)
MaxStarveBatches == 3

\* limit of send_due, scaled to the model.
ScaledSendLimit == 2
\* spool_max_batches, scaled to the model.
ScaledSpoolCap == 3

\* The sizes of the one event of a batch: within the payload cap of the
\* server, and over it.
AcceptedSize == 8
RejectedSize == 10

\* The status the server answers for the batch is not 200.
RejectedByServer(evs) == \E i \in 1..Len(evs) : evs[i].size > AcceptedSize

\* run_once up to send_due: nothing was collected, or one batch was, which
\* is enqueued; enforce_limit.
StarveSpool ==
    /\ daemon.pc = "run"
    /\ \/ UNCHANGED <<spool, enqueued, spool_last>>
       \/ /\ enqueued < MaxStarveBatches
          /\ \E size \in {AcceptedSize, RejectedSize} :
              \E with_row \in {spool \cup {NewRow(spool, <<AgentEvent(enqueued + 1, size)>>, now)}} :
                \E D \in enforce_limit(with_row, ScaledSpoolCap) :
                   /\ spool' = with_row \ D
                   /\ spool_last' = [op |-> "enqueue", dropped |-> D]
          /\ enqueued' = enqueued + 1
    /\ daemon' = [daemon EXCEPT !.pc = "send"]
    /\ UNCHANGED <<pending, counts, attempts, split, call>>
    /\ UNCHANGED <<serverVars, limiterVars, computeVars>>

\* send_due against that server, and the end of run_once.
StarveSendDue ==
    /\ daemon.pc = "send"
    /\ \E due \in {due_batches(spool, now, ScaledSendLimit)} :
        \E outs \in {[id \in {due[i].batch_id : i \in 1..Len(due)} |->
                        IF \E i \in 1..Len(due) :
                              due[i].batch_id = id /\ RejectedByServer(due[i].events)
                        THEN "rejected" ELSE "ok"]} :
          /\ spool' = send_due(spool, due, outs, now)
          /\ daemon' = [daemon EXCEPT !.pc = "wait", !.waited = 0,
                                      !.last = [kind |-> "sent", outcomes |-> outs]]
    /\ UNCHANGED <<pending, counts, attempts, enqueued, spool_last, split, call>>
    /\ UNCHANGED <<serverVars, limiterVars, computeVars>>

NextStarve ==
    \/ DaemonStart \/ DaemonCycle \/ StarveSpool \/ StarveSendDue
    \/ DaemonWaits \/ DaemonWakes

\* Cycles keep running.
StarveFairness ==
    /\ WF_vars(DaemonStart) /\ WF_vars(DaemonCycle) /\ WF_vars(StarveSpool)
    /\ WF_vars(StarveSendDue) /\ WF_vars(DaemonWaits) /\ WF_vars(DaemonWakes)

SpecStarve == Init /\ [][NextStarve]_vars /\ StarveFairness

(***************************************************************************)
(* agent/runtime.py: run_once and the summary it returns.                  *)
(***************************************************************************)
MaxRunBatches == 5      \* batches enqueued over all the cycles
MaxCollected == 3       \* events collected in one cycle

\* Spooler.enqueue(events): the spools it may leave, each with the rows its
\* enforce_limit deleted; the count enforce_limit returns is not kept.
enqueue(sp, batch, t, cap) ==
    IF batch = <<>> THEN {[spool |-> sp, evicted |-> {}]}
    ELSE {[spool |-> (sp \cup {NewRow(sp, batch, t)}) \ D, evicted |-> D] :
            D \in enforce_limit(sp \cup {NewRow(sp, batch, t)}, cap)}

\* for batch in batches: spooler.enqueue(batch)
RECURSIVE enqueue_batches(_, _, _, _)
enqueue_batches(sp, batches, t, cap) ==
    IF batches = <<>> THEN {[spool |-> sp, evicted |-> {}]}
    ELSE UNION {{[spool |-> b.spool, evicted |-> a.evicted \cup b.evicted] :
                    b \in enqueue_batches(a.spool, Tail(batches), t, cap)} :
                a \in enqueue(sp, Head(batches), t, cap)}

\* The number of posts of send_due with outcome o.
CountOutcomes(due, outs, o) ==
    Cardinality({i \in 1..Len(due) : outs[due[i].batch_id] = o})

\* run_once: collect_events returned evs.
RunOnce ==
    /\ daemon.pc = "off"
    /\ \E n \in 0..MaxCollected :
        \E evs \in {[i \in 1..n |-> AgentEvent(enqueued + i, 8)]} :
         \E batches \in split_batches(evs, 1) :
          /\ enqueued + Len(batches) <= MaxRunBatches
          /\ enqueued' = enqueued + Len(batches)
          /\ \E queued \in enqueue_batches(spool, batches, now, max_batches) :
              \E D \in enforce_limit(queued.spool, max_batches) :
               \E due \in {due_batches(queued.spool \ D, now, SendLimit)} :
                \E outs \in [{due[i].batch_id : i \in 1..Len(due)} -> PostOutcomes] :
                 \E after \in {send_due(queued.spool \ D, due, outs, now)} :
                  /\ spool' = after
                  /\ spool_last' =
                        [op |-> "run_once", dropped |-> queued.evicted \cup D,
                         summary |-> [collected_events |-> Len(evs),
                                      queued_batches |-> Len(batches),
                                      sent_batches |-> CountOutcomes(due, outs, "ok"),
                                      failed_batches |->
                                          CountOutcomes(due, outs, "transport_error"),
                                      dropped_batches |-> 0 + Cardinality(D),
                                      spool_depth |-> Cardinality(after)]]
    /\ UNCHANGED <<pending, counts, attempts, split, daemon, call>>
    /\ UNCHANGED <<serverVars, limiterVars, computeVars>>

NextRunOnce == RunOnce \/ AgentTick

SpecRunOnce == Init /\ [][NextRunOnce]_vars

(***************************************************************************)
(* agent/runtime.py collect_events, on macOS without filewatch, with three *)
(* of the collectors of build_collectors.                                  *)
(***************************************************************************)
Collectors == <<"ProcessCollector", "NetworkCollector", "MacOSAuthCollector">>

\* failed_login_spike_threshold of the configuration, scaled to the model.
failed_login_spike_threshold == 2

ErrorClasses == {"RuntimeError", "PermissionError"}

\* The n-th event collector c returns; those of the auth collector are
\* failed logins.
CollectedEvent(c, n) ==
    [source |-> IF c = "MacOSAuthCollector" THEN "auth" ELSE "process",
     severity |-> "INFO",
     title |-> IF c = "MacOSAuthCollector" THEN "failed login" ELSE "observed",
     details_json |-> [collector |-> c, n |-> n]]

\* What collector.collect() may do: return no, one or two events, or raise.
CollectorRuns(c) ==
    {[tag |-> "ok", events |-> [n \in 1..k |-> CollectedEvent(c, n)]] : k \in 0..2}
    \cup {[tag |-> "raise", error |-> e] : e \in ErrorClasses}

_collector_failure_event(platform, collector_name, error) ==
    [source |-> "system", severity |-> "WARN", title |-> "collector_failure",
     details_json |-> [collector |-> collector_name, platform |-> platform, reason |-> error]]

\* A loop that gives up at the first collector that raises.
RECURSIVE collect_loop_abort(_, _, _)
collect_loop_abort(runs, i, acc) ==
    IF i > Len(runs) THEN acc
    ELSE IF runs[i].tag = "ok"
         THEN collect_loop_abort(runs, i + 1,
                  [events |-> acc.events \o runs[i].events, ran |-> Append(acc.ran, i)])
         ELSE [events |-> Append(acc.events,
                                _collector_failure_event("macos", Collectors[i], runs[i].error)),
               ran |-> Append(acc.ran, i)]

\* for collector in collectors: try ... except Exception.  ran lists the
\* collectors whose collect() was called.
RECURSIVE collect_loop(_, _, _)
collect_loop(runs, i, acc) ==
    IF i > Len(runs) THEN acc
    ELSE collect_loop(runs, i + 1,
            [events |-> IF runs[i].tag = "ok"
                        THEN acc.events \o runs[i].events
                        ELSE Append(acc.events,
                                    _collector_failure_event("macos", Collectors[i],
                                                             runs[i].error)),
             ran |-> Append(acc.ran, i)])

\* str.lower() on the titles and event types the model uses.
lower(text) ==
    CASE text = "Failed password" -> "failed password"
      [] text = "FAILED_LOGIN" -> "failed_login"
      [] OTHER -> text

\* "failed" in lowered_title
contains_failed(lowered_title) ==
    lowered_title \in {"failed password", "failed login", "failed to start"}

\* threshold = max(1, int(threshold_raw)), 5 when int() raises.
spike_threshold(threshold_raw) ==
    IF threshold_raw.is_int THEN Max(1, threshold_raw.value) ELSE 5

\* The loop of _failed_login_spike_events: whether it counts the event.
counts_as_failed(event) ==
    /\ event.source = "auth"
    /\ LET lowered_title == lower(event.title)
           event_type == IF "event_type" \in DOMAIN event.details_json
                         THEN lower(event.details_json.event_type) ELSE ""
       IN contains_failed(lowered_title) \/ event_type = "failed_login"

\* A count of every auth event, whatever its title and event type.
_failed_login_spike_events_any_auth(evs, threshold_raw) ==
    LET threshold == spike_threshold(threshold_raw)
        failed == Cardinality({k \in 1..Len(evs) : evs[k].source = "auth"})
    IN IF failed < threshold THEN <<>>
       ELSE <<[source |-> "auth",
               severity |-> IF failed >= threshold * 2 THEN "HIGH" ELSE "WARN",
               title |-> "failed_login_spike",
               details_json |-> [event_type |-> "failed_login_spike", failed_count |-> failed,
                                 threshold |-> threshold]]>>

\* _failed_login_spike_events(events, config); window_seconds and
\* rate_per_minute of the details are left out.
_failed_login_spike_events(evs, threshold_raw) ==
    LET threshold == spike_threshold(threshold_raw)
        failed == Cardinality({k \in 1..Len(evs) : counts_as_failed(evs[k])})
    IN IF failed < threshold THEN <<>>
       ELSE <<[source |-> "auth",
               severity |-> IF failed >= threshold * 2 THEN "HIGH" ELSE "WARN",
               title |-> "failed_login_spike",
               details_json |-> [event_type |-> "failed_login_spike", failed_count |-> failed,
                                 threshold |-> threshold]]>>

collect_events(runs) ==
    LET looped == collect_loop(runs, 1, [events |-> <<>>, ran |-> <<>>])
    IN [events |-> looped.events \o
                      _failed_login_spike_events(looped.events,
                          [is_int |-> TRUE, value |-> failed_login_spike_threshold]),
        ran |-> looped.ran]

CollectInit ==
    /\ ServerInit
    /\ fail_closed = TRUE
    /\ signing_keys = SeededKeys
    /\ LimiterIdle
    /\ SpoolIdle
    /\ split = NoSplit
    /\ \E runs \in [1..Len(Collectors) -> UNION {CollectorRuns(Collectors[i]) : i \in 1..Len(Collectors)}] :
         /\ \A i \in 1..Len(Collectors) : runs[i] \in CollectorRuns(Collectors[i])
         /\ call = [fn |-> "collect_events", input |-> runs, done |-> FALSE]

\* events = collect_events(config)
CollectEvents ==
    /\ call.fn = "collect_events"
    /\ ~call.done
    /\ call' = [fn |-> call.fn, input |-> call.input, done |-> TRUE,
                output |-> collect_events(call.input)]
    /\ UNCHANGED <<spool, pending, counts, attempts, enqueued, spool_last, split, daemon>>
    /\ UNCHANGED <<serverVars, limiterVars, computeVars>>

NextCollect == CollectEvents

SpecCollect == CollectInit /\ [][NextCollect]_vars

(***************************************************************************)
(* _failed_login_spike_events on the events of a cycle, for the values the *)
(* platform table of the configuration may hold for the threshold.         *)
(***************************************************************************)
MaxSpikeEvents == 4

\* Events of a cycle: auth events that count by their title, by their
\* event type, or not at all, and an event of another source whose title
\* and event type would count.
SpikeInputEvents ==
    {[source |-> "auth", severity |-> "WARN", title |-> "Failed password",
      details_json |-> [user |-> "u"]],
     [source |-> "auth", severity |-> "WARN", title |-> "login",
      details_json |-> [event_type |-> "failed_login"]],
     [source |-> "auth", severity |-> "WARN", title |-> "login",
      details_json |-> [event_type |-> "FAILED_LOGIN"]],
     [source |-> "auth", severity |-> "INFO", title |-> "login",
      details_json |-> [event_type |-> "login"]],
     [source |-> "process", severity |-> "WARN", title |-> "failed to start",
      details_json |-> [event_type |-> "failed_login"]]}

\* config.platform.get("failed_login_spike_threshold", 5): any value.
ThresholdRaws ==
    {[is_int |-> TRUE, value |-> v] : v \in 0..2} \cup {[is_int |-> FALSE, value |-> 0]}

SpikeInit ==
    /\ ServerInit
    /\ fail_closed = TRUE
    /\ signing_keys = SeededKeys
    /\ LimiterIdle
    /\ SpoolIdle
    /\ split = NoSplit
    /\ \E n \in 0..MaxSpikeEvents : \E evs \in [1..n -> SpikeInputEvents] :
         \E raw \in ThresholdRaws :
            call = [fn |-> "_failed_login_spike_events",
                    input |-> [events |-> evs, threshold_raw |-> raw], done |-> FALSE]

\* events.extend(_failed_login_spike_events(events, config))
SpikeEvents ==
    /\ call.fn = "_failed_login_spike_events"
    /\ ~call.done
    /\ call' = [fn |-> call.fn, input |-> call.input, done |-> TRUE,
                output |-> _failed_login_spike_events(call.input.events,
                                                      call.input.threshold_raw)]
    /\ UNCHANGED <<spool, pending, counts, attempts, enqueued, spool_last, split, daemon>>
    /\ UNCHANGED <<serverVars, limiterVars, computeVars>>

NextSpike == SpikeEvents

SpecSpike == SpikeInit /\ [][NextSpike]_vars

(***************************************************************************)
(* core/engine.py, server/insights.py, server/db.py: the insight compute   *)
(* of device d1 of org o1.  All events are WARN events of the same day and *)
(* of one category, none older than 31 days.                               *)
(***************************************************************************)
dedup_window == 1
MaxComputes == 2

\* EM_MAX_INGEST_COMPUTE_SECONDS, in seconds, and the wall-clock seconds a
\* compute may have taken when compute_device_insights looks at the clock.
max_ingest_compute_seconds == 3
ElapsedSeconds == {3, 4, 11}

\* A runner that returned {"inserted": ..., "suppressed": ...} to its caller
\* after a compute that had taken elapsed seconds when it looked at the clock.
Returned(inserted, suppressed, elapsed) ==
    [pc |-> "idle", result |-> [inserted |-> inserted, suppressed |-> suppressed],
     elapsed |-> elapsed]

Range(seq) == {seq[i] : i \in 1..Len(seq)}

RECURSIVE SeqOfSet(_)
SeqOfSet(S) == IF S = {} THEN <<>>
               ELSE LET x == CHOOSE y \in S : TRUE IN <<x>> \o SeqOfSet(S \ {x})

\* _event_fingerprint: source, title and the stable keys of the details.
event_fingerprint(event) == <<event.title, event.details>>

\* The insight of a change: its fingerprint is made of its title, which is
\* made of the title of the event.
ChangeInsight(fp) == "new:" \o fp[1]

\* build_insight_bundle: the insight of the top risk driver, then one
\* insight for every event fingerprint that is new since yesterday (in the
\* order of their titles, which nothing below depends on).
build_insight_bundle(evs) ==
    LET today_fp == {event_fingerprint(e) : e \in Range(evs)}
        new_changes == SeqOfSet(today_fp)
    IN [day |-> "today",
        insights |-> <<"driver">> \o [i \in 1..Len(new_changes) |-> ChangeInsight(new_changes[i])],
        payload |-> Len(evs)]

\* fetch_events_for_device
fetch_events_for_device(org_id, device_id) ==
    SelectSeq(events, LAMBDA e : e.org_id = org_id /\ e.device_id = device_id)

\* persist_bundle, its first query: the rows of the bundle's fingerprints
\* seen within the dedup window.
existing_rows(org_id, device_id, bundle, t) ==
    {r \in insights : /\ r.org_id = org_id /\ r.device_id = device_id
                      /\ r.fingerprint \in Range(bundle.insights)
                      /\ r.last_seen >= t - dedup_window}

Occurrences(seq, x) == Cardinality({i \in 1..Len(seq) : seq[i] = x})

NextInsightId(rows) ==
    IF rows = {} THEN 1 ELSE (CHOOSE i \in {r.id : r \in rows} : \A r \in rows : r.id <= i) + 1

\* existing = {row.fingerprint: row for row in existing_rows}
ExistingByFingerprint(rows) ==
    [fp \in {r.fingerprint : r \in rows} |->
        CHOOSE r \in rows : r.fingerprint = fp /\ \A q \in rows : q.fingerprint = fp => q.id <= r.id]

\* persist_bundle, the loop over bundle.insights and the flush: a hit sets
\* count and last_seen of the row that was read, a miss inserts a row.
persist_insights(table, found, org_id, device_id, bundle, t) ==
    LET existing == ExistingByFingerprint(found)
        misses == SelectSeq(bundle.insights, LAMBDA fp : fp \notin DOMAIN existing)
        hit_ids == {existing[fp].id : fp \in DOMAIN existing}
        base == NextInsightId(table)
    IN {r \in table : r.id \notin hit_ids}
       \cup {[existing[fp] EXCEPT !.count = @ + Occurrences(bundle.insights, fp),
                                  !.last_seen = t] : fp \in DOMAIN existing}
       \cup {[id |-> base + i - 1, org_id |-> org_id, device_id |-> device_id,
               fingerprint |-> misses[i], count |-> 1,
               first_seen |-> t, last_seen |-> t] : i \in 1..Len(misses)}

\* persist_bundle, its return value: the misses and the hits of the loop.
persist_inserted(found, bundle) ==
    Len(SelectSeq(bundle.insights, LAMBDA fp : fp \notin {r.fingerprint : r \in found}))

persist_suppressed(found, bundle) ==
    Len(SelectSeq(bundle.insights, LAMBDA fp : fp \in {r.fingerprint : r \in found}))

\* persist_bundle, the daily metric: inserted or replaced.
persist_metric(table, org_id, device_id, bundle) ==
    {m \in table : ~(m.org_id = org_id /\ m.device_id = device_id /\ m.day = bundle.day)}
    \cup {[org_id |-> org_id, device_id |-> device_id, day |-> bundle.day,
           payload |-> bundle.payload]}

\* The steps of the /ingest handler from the database call on, in the
\* order of the source, the other way round first.
ingest_order_enqueue_first == <<"enqueue", "store">>

ingest_order == <<"store", "enqueue">>

ComputeNonces == {"n1", "n2"}

\* The event lists of the requests of d1: one event, or two events of the
\* same title that differ in their details.
ComputeEventLists ==
    {<<EventWith("macos", "t1", 1)>>,
     <<EventWith("macos", "t1", 1), EventWith("macos", "t1", 2)>>}

ComputeRequestsAt(t) ==
    {MkRequest("o1", "d1", n, t, evs, {}) : n \in ComputeNonces, evs \in ComputeEventLists}

\* One step of the handler of request req whose checks up to the database
\* call found status (200 while nothing was rejected).
IngestStep(step, req, out) ==
    IF step = "store"
    THEN /\ Len(out.events) <= MaxEvents
         /\ nonces' = out.nonces
         /\ devices' = out.devices
         /\ events' = out.events
         /\ buckets' = out.buckets
         /\ local_counts' = out.local_counts
         /\ UNCHANGED <<task_queue, task_reqs>>
    ELSE /\ task_queue' = enqueue_compute(task_queue, req.body.doc.org_id,
                                          req.body.doc.device_id, FALSE)
         /\ task_reqs' = Append(task_reqs, req)
         /\ UNCHANGED <<nonces, devices, events, buckets, local_counts>>

\* POST /ingest of a request the server accepts: the first of the two steps.
ComputeIngestFirst ==
    /\ handler.pc = "idle"
    /\ \E req \in ComputeRequestsAt(now) :
        \E out \in {ingest(req, "none")} :
         /\ out.status = 200
         /\ IngestStep(ingest_order[1], req, out)
         /\ handler' = [pc |-> "second", req |-> req, out |-> out]
    /\ UNCHANGED <<now, fail_closed, signing_keys, resp, accepted>>
    /\ UNCHANGED <<insights, metrics, runners, histories, computes, timeouts, auth, watchdog, sessions, filewatch>>
    /\ UNCHANGED <<limiterVars, agentVars>>

\* The second step, and the reply.
ComputeIngestSecond ==
    /\ handler.pc = "second"
    /\ IngestStep(ingest_order[2], handler.req, handler.out)
    /\ handler' = [pc |-> "idle"]
    /\ resp' = [NoResp EXCEPT !.status = 200, !.reason = "accepted",
                              !.key = Triple(handler.req.org, handler.req.device, handler.req.nonce)]
    /\ UNCHANGED <<now, fail_closed, signing_keys, accepted>>
    /\ UNCHANGED <<insights, metrics, runners, histories, computes, timeouts, auth, watchdog, sessions, filewatch>>
    /\ UNCHANGED <<limiterVars, agentVars>>

\* A Celery worker takes the task at the head of the queue.
TaskStart(w) ==
    /\ w # "sched"
    /\ runners[w].pc = "idle"
    /\ task_queue # <<>>
    /\ computes < MaxComputes
    /\ runners' = [runners EXCEPT ![w] = [pc |-> "started", key |-> Head(task_queue),
                                          trigger |-> {Head(task_reqs)}]]
    /\ task_queue' = Tail(task_queue)
    /\ task_reqs' = Tail(task_reqs)
    /\ computes' = computes + 1
    /\ UNCHANGED <<now, nonces, devices, events, buckets, local_counts, fail_closed,
                   signing_keys, resp, accepted>>
    /\ UNCHANGED <<insights, metrics, handler, histories, timeouts, auth, watchdog, sessions, filewatch>>
    /\ UNCHANGED <<limiterVars, agentVars>>

\* InsightScheduler._loop comes to a pair of get_org_device_pairs.
SchedStart ==
    /\ runners["sched"].pc = "idle"
    /\ computes < MaxComputes
    /\ \E d \in devices :
         runners' = [runners EXCEPT !["sched"] = [pc |-> "started",
                                                 key |-> <<d.org_id, d.device_id>>,
                                                 trigger |-> {}]]
    /\ computes' = computes + 1
    /\ UNCHANGED serverVars
    /\ UNCHANGED <<insights, metrics, handler, task_reqs, histories, timeouts, auth, watchdog, sessions, filewatch>>
    /\ UNCHANGED <<limiterVars, agentVars>>

RunnerFrame ==
    /\ UNCHANGED serverVars
    /\ UNCHANGED <<handler, task_reqs, computes, auth, watchdog, sessions, filewatch>>
    /\ UNCHANGED <<limiterVars, agentVars>>

\* compute_device_insights: the events are read and the bundle is built.
ComputeFetch(r) ==
    /\ runners[r].pc = "started"
    /\ \E evs \in {fetch_events_for_device(runners[r].key[1], runners[r].key[2])} :
         runners' = [runners EXCEPT ![r] =
                        IF evs = <<>> THEN Returned(0, 0, 0)
                        ELSE [pc |-> "built", key |-> @.key, trigger |-> @.trigger,
                              snapshot |-> evs, bundle |-> build_insight_bundle(evs)]]
    /\ UNCHANGED <<insights, metrics, histories, timeouts>>
    /\ RunnerFrame

\* A task that swallows the timeout without counting it.
ComputeTimeout_uncounted(r) ==
    /\ runners[r].pc = "built"
    /\ \E elapsed \in ElapsedSeconds :
         /\ elapsed > max_ingest_compute_seconds
         /\ runners' = [runners EXCEPT ![r] =
                           IF r = "sched" THEN IdleRunner
                           ELSE Returned(0, 0, elapsed)]
    /\ UNCHANGED <<insights, metrics, histories, timeouts>>
    /\ RunnerFrame

\* compute_device_insights looks at the clock after the bundle is built and
\* raises ComputeTimeoutError when more than max_seconds have passed.  The
\* task counts the timeout and returns zeros; the scheduler logs a warning.
ComputeTimeout(r) ==
    /\ runners[r].pc = "built"
    /\ \E elapsed \in ElapsedSeconds :
         /\ elapsed > max_ingest_compute_seconds
         /\ runners' = [runners EXCEPT ![r] =
                           IF r = "sched" THEN IdleRunner
                           ELSE Returned(0, 0, elapsed)]
    /\ timeouts' = IF r = "sched" THEN timeouts ELSE timeouts + 1
    /\ UNCHANGED <<insights, metrics, histories>>
    /\ RunnerFrame

\* persist_bundle: now is read and the existing rows are selected.
PersistSelect(r) ==
    /\ runners[r].pc = "built"
    /\ \E elapsed \in ElapsedSeconds :
         /\ ~(elapsed > max_ingest_compute_seconds)
         /\ runners' = [runners EXCEPT ![r] =
                           [pc |-> "selected", key |-> @.key, trigger |-> @.trigger,
                            snapshot |-> @.snapshot, bundle |-> @.bundle, t |-> now,
                            elapsed |-> elapsed,
                            found |-> existing_rows(@.key[1], @.key[2], @.bundle, now)]]
    /\ UNCHANGED <<insights, metrics, histories, timeouts>>
    /\ RunnerFrame

\* persist_bundle: the loop, the daily metric and the commit.
PersistCommit(r) ==
    /\ runners[r].pc = "selected"
    /\ \E run \in {runners[r]} :
         /\ insights' = persist_insights(insights, run.found, run.key[1], run.key[2],
                                          run.bundle, run.t)
         /\ metrics' = persist_metric(metrics, run.key[1], run.key[2], run.bundle)
         /\ histories' = histories \cup {run.snapshot}
         /\ runners' = [runners EXCEPT ![r] =
                IF r = "sched" THEN IdleRunner
                ELSE Returned(persist_inserted(run.found, run.bundle),
                              persist_suppressed(run.found, run.bundle), run.elapsed)]
    /\ UNCHANGED timeouts
    /\ RunnerFrame

NextCompute ==
    \/ ComputeIngestFirst \/ ComputeIngestSecond
    \/ \E w \in Runners : TaskStart(w)
    \/ SchedStart
    \/ \E r \in Runners : ComputeFetch(r)
    \/ \E r \in Runners : ComputeTimeout(r)
    \/ \E r \in Runners : PersistSelect(r)
    \/ \E r \in Runners : PersistCommit(r)
    \/ Tick

SpecCompute == Init /\ [][NextCompute]_vars

(***************************************************************************)
(* server/auth_routes.py and server/db.py: refresh tokens of one active    *)
(* user.  Two requests of /auth/api/refresh may be handled at a time; the  *)
(* database runs each statement against what is committed (PostgreSQL,     *)
(* READ COMMITTED).                                                        *)
(***************************************************************************)
MaxRefreshes == 3

\* EM_REFRESH_TOKEN_TTL_SECONDS, scaled to the model.
refresh_token_ttl_seconds == 2

NotRevoked == -1

\* secrets.token_urlsafe(24): a value not drawn before.
token_urlsafe(k) == "r" \o ToString(k)

\* store_refresh_token: the expired rows are deleted, the row is added.
store_refresh_token(tokens, token_id, t) ==
    {row \in tokens : ~(row.expires_at < t)}
    \cup {[token_id |-> token_id, expires_at |-> t + refresh_token_ttl_seconds,
            revoked_at |-> NotRevoked]}

\* use_refresh_token, its select: the rows of the token that are not
\* revoked and not expired.
select_refresh_token(tokens, token_id, t) ==
    {row \in tokens : /\ row.token_id = token_id
                       /\ row.revoked_at = NotRevoked
                       /\ row.expires_at > t}

\* use_refresh_token, its update at the commit: UPDATE ... WHERE id = ...
revoke_refresh_token(tokens, token_id, t) ==
    {IF row.token_id = token_id THEN [row EXCEPT !.revoked_at = t] ELSE row : row \in tokens}

AuthFrame ==
    /\ UNCHANGED serverVars
    /\ UNCHANGED <<insights, metrics, runners, handler, task_reqs, histories, computes,
                   timeouts, watchdog, sessions, filewatch>>
    /\ UNCHANGED <<limiterVars, agentVars>>

\* POST /auth/api/login of the user: a token pair is issued.
Login ==
    /\ auth.issued = 0
    /\ auth' = [auth EXCEPT !.tokens = store_refresh_token(@, token_urlsafe(1), now),
                            !.issued = 1]
    /\ AuthFrame

Reply(h, token, status, next_token) ==
    [n |-> Cardinality(auth.replies) + 1, handler |-> h, token |-> token, status |-> status,
     refresh_token |-> next_token, at |-> now]

\* POST /auth/api/refresh with a token issued before, up to the select of
\* use_refresh_token; 401 when no row is found.
RefreshSelect(h) ==
    /\ auth.handlers[h].pc = "idle"
    /\ Cardinality(auth.replies)
         + Cardinality({x \in RefreshHandlers : auth.handlers[x].pc # "idle"}) < MaxRefreshes
    /\ \E k \in 1..auth.issued :
        \E found \in {select_refresh_token(auth.tokens, token_urlsafe(k), now)} :
          auth' = IF found = {}
                  THEN [auth EXCEPT !.replies = @ \cup {Reply(h, token_urlsafe(k), 401, "")}]
                  ELSE [auth EXCEPT !.handlers[h] = [pc |-> "selected",
                                                     token |-> token_urlsafe(k)]]
    /\ AuthFrame

\* use_refresh_token: token.revoked_at = now, the user is read, commit.
RefreshRevoke(h) ==
    /\ auth.handlers[h].pc = "selected"
    /\ auth' = [auth EXCEPT !.tokens = revoke_refresh_token(@, auth.handlers[h].token, now),
                            !.handlers[h] = [pc |-> "used", token |-> auth.handlers[h].token]]
    /\ AuthFrame

\* api_refresh after use_refresh_token: the next pair is made and stored,
\* the reply is 200.
RefreshStore(h) ==
    /\ auth.handlers[h].pc = "used"
    /\ \E next_refresh_id \in {token_urlsafe(auth.issued + 1)} :
         auth' = [auth EXCEPT !.tokens = store_refresh_token(@, next_refresh_id, now),
                              !.issued = @ + 1,
                              !.handlers[h] = [pc |-> "idle"],
                              !.replies = @ \cup {Reply(h, auth.handlers[h].token, 200,
                                                        next_refresh_id)}]
    /\ AuthFrame

NextAuth ==
    \/ Login
    \/ \E h \in RefreshHandlers : RefreshSelect(h)
    \/ \E h \in RefreshHandlers : RefreshRevoke(h)
    \/ \E h \in RefreshHandlers : RefreshStore(h)
    \/ Tick

SpecAuth == Init /\ [][NextAuth]_vars

(***************************************************************************)
(* core/dedup.py build_fingerprint.  An evidence dictionary is a function  *)
(* from its keys to values [type, value]; SHA-256 of the canonical JSON is *)
(* the payload itself.                                                     *)
(***************************************************************************)
STABLE_EVIDENCE_KEYS ==
    <<"process_name", "exe", "pid", "ip", "port", "username", "event_type", "listener",
      "metric", "classification", "change">>

\* The keys and the values of the evidence dictionaries of the model: one
\* key of the allowlist, two others; two integers and a list.
EvidenceKeys == {"pid", "ts", "tags"}
EvidenceValues == {[type |-> "int", value |-> 1], [type |-> "int", value |-> 2],
                   [type |-> "list", value |-> 1]}
Evidences == UNION {[D -> EvidenceValues] : D \in SUBSET EvidenceKeys}

\* isinstance(value, (str, int, float, bool)) or value is None
IsPrimitive(value) == value.type \in {"str", "int", "float", "bool", "None"}

\* source.lower() and " ".join(title.lower().split()) on the sources and
\* titles of the model.
SourceLower(source) == IF source = "SYSTEM" THEN "system" ELSE source
TitleNormal(title) == IF title = "New  Risk" THEN "new risk" ELSE title

\* stable: the keys of the allowlist that are in evidence; when there is
\* none, every key of evidence whose value is a primitive.
stable_evidence(evidence) ==
    LET picked == DOMAIN evidence \cap Range(STABLE_EVIDENCE_KEYS)
    IN IF picked # {}
       THEN [k \in picked |-> evidence[k]]
       ELSE [k \in {x \in DOMAIN evidence : IsPrimitive(evidence[x])} |-> evidence[k]]

build_fingerprint(source, title, evidence) ==
    [source |-> SourceLower(source), title |-> TitleNormal(title),
     stable |-> stable_evidence(evidence)]

FingerprintInit ==
    /\ ServerInit
    /\ fail_closed = TRUE
    /\ signing_keys = SeededKeys
    /\ LimiterIdle
    /\ SpoolIdle
    /\ split = NoSplit
    /\ \E a \in Evidences, b \in Evidences, title \in {"new risk", "New  Risk"} :
         call = [fn |-> "build_fingerprint",
                 input |-> [source |-> "system", title |-> title, first |-> a, second |-> b],
                 done |-> FALSE]

\* The fingerprints of two insights of the same source and title.
BuildFingerprints ==
    /\ call.fn = "build_fingerprint"
    /\ ~call.done
    /\ call' = [fn |-> call.fn, input |-> call.input, done |-> TRUE,
                output |-> <<build_fingerprint(call.input.source, call.input.title,
                                               call.input.first),
                             build_fingerprint(call.input.source, call.input.title,
                                               call.input.second)>>]
    /\ UNCHANGED <<spool, pending, counts, attempts, enqueued, spool_last, split, daemon>>
    /\ UNCHANGED <<serverVars, limiterVars, computeVars>>

NextFingerprint == BuildFingerprints

SpecFingerprint == FingerprintInit /\ [][NextFingerprint]_vars

(***************************************************************************)
(* The state around a call of a function of the insight core: everything   *)
(* else idle.                                                              *)
(***************************************************************************)
CoreIdle ==
    /\ ServerInit
    /\ fail_closed = TRUE
    /\ signing_keys = SeededKeys
    /\ LimiterIdle
    /\ SpoolIdle
    /\ split = NoSplit

CallFrame ==
    /\ UNCHANGED <<spool, pending, counts, attempts, enqueued, spool_last, split, daemon>>
    /\ UNCHANGED <<serverVars, limiterVars, computeVars>>

(***************************************************************************)
(* core/baseline.py.  A float is a fraction [num, den] of integers, den >  *)
(* 0, so that comparisons with 1.5 and 3.0 and the rounding to four places *)
(* are exact.                                                              *)
(***************************************************************************)
MaxHistory == 3

METRIC_KEYS == <<"failed_logins", "new_listeners", "new_processes", "suspicious_execs">>

\* dict.get(key, 0)
get_metric(day, key) == IF key \in DOMAIN day THEN day[key] ELSE 0

\* sorted(values)
sorted(values) ==
    CHOOSE seq \in [1..Len(values) -> Range(values)] :
        /\ \A i \in 1..(Len(values) - 1) : seq[i] <= seq[i + 1]
        /\ \A v \in Range(values) :
              Cardinality({i \in 1..Len(values) : seq[i] = v})
                  = Cardinality({i \in 1..Len(values) : values[i] = v})

\* compute_median: 0.0 of no values, statistics.median otherwise.
compute_median(values) ==
    IF values = <<>> THEN [num |-> 0, den |-> 1]
    ELSE LET seq == sorted(values)
             n == Len(values)
         IN IF n % 2 = 1 THEN [num |-> seq[(n + 1) \div 2], den |-> 1]
            ELSE [num |-> seq[n \div 2] + seq[n \div 2 + 1], den |-> 2]

\* classify_ratio: the bounds are 1.5 = 3/2 and 3.0.
classify_ratio(ratio) ==
    IF 2 * ratio.num < 3 * ratio.den THEN "normal"
    ELSE IF ratio.num < 3 * ratio.den THEN "elevated"
    ELSE "anomalous"

\* round(ratio, 4), as the number of ten-thousandths; a tie goes to the
\* even neighbour.
round4(ratio) ==
    LET scaled == 10000 * ratio.num
        q == scaled \div ratio.den
        r == scaled % ratio.den
    IN IF 2 * r < ratio.den THEN q
       ELSE IF 2 * r > ratio.den THEN q + 1
       ELSE IF q % 2 = 0 THEN q ELSE q + 1

\* max(1.0, baseline)
max_one(baseline) == IF baseline.num < baseline.den THEN [num |-> 1, den |-> 1] ELSE baseline

\* The body of the loop of compute_baseline for one key.
baseline_metric(key, today_metrics, prior_metrics) ==
    LET today == get_metric(today_metrics, key)
        history == [i \in 1..Len(prior_metrics) |-> get_metric(prior_metrics[i], key)]
        baseline == compute_median(history)
        floor == max_one(baseline)
        ratio == [num |-> today * floor.den, den |-> floor.num]
    IN [metric |-> key, today |-> today, baseline |-> baseline,
        ratio |-> round4(ratio),
        classification |-> classify_ratio(ratio)]

compute_baseline(today_metrics, prior_metrics) ==
    [key \in Range(METRIC_KEYS) |-> baseline_metric(key, today_metrics, prior_metrics)]

\* Counts of a signal on the target day and on a prior day; the large ones
\* put the ratio next to 1.5 and to 3.
TodayCounts == {0, 1, 2, 3, 8, 59999, 60000}
PriorCounts == {0, 1, 2, 20000, 40000}

TodayMetrics ==
    {[k \in {"failed_logins"} |-> t] : t \in TodayCounts}
    \cup {[k \in {"failed_logins", "new_listeners"} |-> IF k = "failed_logins" THEN t ELSE 3] :
            t \in TodayCounts}

PriorDays == {[k \in {"failed_logins"} |-> h] : h \in PriorCounts} \cup {[k \in {} |-> 0]}

BaselineInit ==
    /\ CoreIdle
    /\ \E today_metrics \in TodayMetrics :
         \E n \in 0..MaxHistory : \E prior_metrics \in [1..n -> PriorDays] :
            call = [fn |-> "compute_baseline",
                    input |-> [today_metrics |-> today_metrics, prior_metrics |-> prior_metrics],
                    done |-> FALSE]

\* baseline = compute_baseline(today_metrics, prior_metrics)
ComputeBaseline ==
    /\ call.fn = "compute_baseline"
    /\ ~call.done
    /\ call' = [fn |-> call.fn, input |-> call.input, done |-> TRUE,
                output |-> compute_baseline(call.input.today_metrics,
                                            call.input.prior_metrics)]
    /\ CallFrame

NextBaseline == ComputeBaseline

SpecBaseline == BaselineInit /\ [][NextBaseline]_vars

(***************************************************************************)
(* The local watchdog: InsightService.record_insight on its table          *)
(* insights.  Timestamps are minutes.                                      *)
(***************************************************************************)
MaxRecords == 3
MaxInsightTime == 4

\* dedup_window_minutes of InsightService, scaled to the model.
dedup_window_minutes == 2

SEVERITY_RANK == [INFO |-> 1, WARN |-> 2, HIGH |-> 3]
CONFIDENCE_RANK == [LOW |-> 1, MEDIUM |-> 2, HIGH |-> 3]

\* InsightCreate: ts, severity, confidence and the effective fingerprint
\* (the one given, or build_fingerprint of source, title and evidence).
InsightCreates ==
    [ts : 0..MaxInsightTime, fingerprint : {"f1", "f2"},
     severity : {"INFO", "WARN", "HIGH"}, confidence : {"LOW", "HIGH"}]

\* within_window with a window that lets nothing in but the same minute.
within_window_same_minute(last_seen, now_ts, window_minutes) ==
    /\ window_minutes > 0
    /\ (now_ts - last_seen) <= 0

\* within_window(last_seen, now_ts, window_minutes), of timestamps that parse.
within_window(last_seen, now_ts, window_minutes) ==
    /\ window_minutes > 0
    /\ (now_ts - last_seen) <= window_minutes

\* _load_latest_by_fingerprint: ORDER BY last_seen DESC LIMIT 1; the rows
\* it may return (one of those of the largest last_seen), none when the
\* fingerprint has no row.
_load_latest_by_fingerprint(rows, fingerprint) ==
    {r \in rows : /\ r.fingerprint = fingerprint
                  /\ \A q \in rows : q.fingerprint = fingerprint => q.last_seen <= r.last_seen}

\* record_insight with existing the row _load_latest_by_fingerprint
\* returned ({} for None): the table afterwards.
record_insight(rows, insight, existing) ==
    LET now_ts == insight.ts
        window == Max(1, dedup_window_minutes)
    IN IF existing # {} /\ \A e \in existing : within_window(e.last_seen, now_ts, window)
       THEN (rows \ existing) \cup
            {[e EXCEPT !.ts = now_ts,
                       !.severity = IF SEVERITY_RANK[insight.severity] > SEVERITY_RANK[e.severity]
                                    THEN insight.severity ELSE e.severity,
                       !.confidence = IF CONFIDENCE_RANK[insight.confidence]
                                            > CONFIDENCE_RANK[e.confidence]
                                      THEN insight.confidence ELSE e.confidence,
                       !.last_seen = now_ts,
                       !.count = @ + 1] : e \in existing}
       ELSE rows \cup {[id |-> Cardinality(rows) + 1, ts |-> now_ts,
                        fingerprint |-> insight.fingerprint,
                        severity |-> insight.severity, confidence |-> insight.confidence,
                        first_seen |-> now_ts, last_seen |-> now_ts, count |-> 1]}

\* service.record_insight(insight)
RecordInsight ==
    /\ watchdog.recorded < MaxRecords
    /\ \E insight \in InsightCreates :
         LET latest == _load_latest_by_fingerprint(watchdog.insights, insight.fingerprint)
         IN \E existing \in (IF latest = {} THEN {{}} ELSE {{e} : e \in latest}) :
               watchdog' = [watchdog EXCEPT
                              !.insights = record_insight(@, insight, existing),
                              !.recorded = @ + 1,
                              !.last = [op |-> "record", insight |-> insight,
                                        existing |-> existing]]
    /\ UNCHANGED serverVars
    /\ UNCHANGED <<insights, metrics, runners, handler, task_reqs, histories, computes,
                   timeouts, auth, sessions, filewatch>>
    /\ UNCHANGED <<limiterVars, agentVars>>

NextInsightService == RecordInsight

SpecInsightService == Init /\ [][NextInsightService]_vars

(***************************************************************************)
(* The local watchdog: the observer thread of FileWatchService appends to  *)
(* the deque, the cycle of the scheduler drains it.                        *)
(***************************************************************************)
MaxFileEvents == 4
MaxWatchTime == 3

\* debounce_seconds of _DebouncedHandler
debounce_seconds == 2

\* The bound of the deque of FileWatchService: deque() has none.
NoMaxlen == -1
queue_maxlen == NoMaxlen

WatchedFiles == {"Downloads/setup.dmg", "Downloads/run.sh", "notes.txt"}

FileSystemEvents ==
    [event_type : {"created", "modified"}, src_path : WatchedFiles, is_directory : BOOLEAN]

\* deque.append: with a maxlen the item at the left end goes when the deque
\* is full.
deque_append(queue, item, maxlen) ==
    IF maxlen # NoMaxlen /\ Len(queue) >= maxlen
    THEN (IF maxlen = 0 THEN <<>> ELSE Append(Tail(queue), item))
    ELSE Append(queue, item)

\* _DebouncedHandler.on_any_event at time t: the watchdog afterwards.
on_any_event(w, event, t) ==
    LET key == <<event.event_type, event.src_path>>
        last == {e \in w.seen : e.key = key}
    IN IF event.is_directory THEN w
       ELSE IF \E e \in last : (t - e.at) < debounce_seconds THEN w
       ELSE [w EXCEPT !.seen = (@ \ last) \cup {[key |-> key, at |-> t]},
                      !.queue = deque_append(@, [event_type |-> event.event_type,
                                                 src_path |-> event.src_path, ts |-> t],
                                             queue_maxlen)]

\* The EventIn drain_events makes of an item; present are the paths that
\* exist when it looks.
EventIn(item, present) ==
    LET installer == item.src_path = "Downloads/setup.dmg"
        executable == item.src_path = "Downloads/run.sh" /\ item.src_path \in present
    IN [source |-> "filewatch",
        severity |-> IF executable THEN "HIGH" ELSE IF installer THEN "WARN" ELSE "INFO",
        title |-> IF executable THEN "Executable file change detected"
                  ELSE IF installer THEN "Installer artifact detected in Downloads"
                  ELSE "File change detected",
        details |-> item]

\* The observer thread reports a file event.
FileEvent ==
    /\ watchdog.arrived < MaxFileEvents
    /\ \E event \in FileSystemEvents :
         watchdog' = [on_any_event(watchdog, event, now) EXCEPT
                         !.arrived = @ + 1,
                         !.last = [op |-> "event"]]
    /\ UNCHANGED serverVars
    /\ UNCHANGED <<insights, metrics, runners, handler, task_reqs, histories, computes,
                   timeouts, auth, sessions, filewatch>>
    /\ UNCHANGED <<limiterVars, agentVars>>

\* The cycle of the scheduler: events.extend(self._filewatch.drain_events())
DrainEvents ==
    /\ watchdog.queue # <<>>
    /\ \E present \in {{}, WatchedFiles} :
         watchdog' = [watchdog EXCEPT
                         !.drained = [k \in 1..Len(watchdog.queue) |->
                                         EventIn(watchdog.queue[k], present)],
                         !.queue = <<>>,
                         !.last = [op |-> "drain"]]
    /\ UNCHANGED serverVars
    /\ UNCHANGED <<insights, metrics, runners, handler, task_reqs, histories, computes,
                   timeouts, auth, sessions, filewatch>>
    /\ UNCHANGED <<limiterVars, agentVars>>

\* A second passes.
WatchTick ==
    /\ now < MaxWatchTime
    /\ now' = now + 1
    /\ UNCHANGED <<nonces, devices, events, buckets, local_counts, fail_closed,
                   signing_keys, task_queue, resp, accepted>>
    /\ UNCHANGED <<limiterVars, agentVars, computeVars>>

NextFileWatch == FileEvent \/ DrainEvents \/ WatchTick

SpecFileWatch == Init /\ [][NextFileWatch]_vars

(***************************************************************************)
(* server/db.py: ingest_request run by two server processes against one    *)
(* PostgreSQL database.  The engine is created without an isolation level  *)
(* and the session does not autoflush: the statements of a session read    *)
(* what is committed when they run, and the rows it adds are written when  *)
(* it commits.  A session is taken in two steps, its statements and its    *)
(* commit; the handler's checks before the database call have passed.      *)
(***************************************************************************)
ConcurrentRequestsAt(t) ==
    {MkRequest("o1", "d1", n, t, EventsOf(n), {}) : n \in NonceIds}

\* The rows the open sessions other than that of w are about to add.
PendingEvents(w) ==
    LET others == {x \in Workers \ {w} : sessions[x].pc = "open"}
    IN IF others = {} THEN 0
       ELSE Len(sessions[CHOOSE x \in others : TRUE].request.events)

\* ingest_request up to the end of its with block: the expired nonce rows
\* are deleted, the replay row and the device row are looked up, the new
\* rows are added to the session.
ingest_request_statements(request, seen_at, window_seconds) ==
    LET expires_at == seen_at + window_seconds
        org == get_org(request.org_id)
        deleted == {n \in nonces : n.expires_at < seen_at}
        replay == \E n \in nonces \ deleted : SameNonce(n, request)
        device == {d \in devices : d.org_id = request.org_id /\ d.device_id = request.device_id}
    IN [ret |-> IF org = {} \/ \E o \in org : ~o.is_active THEN -1
                ELSE IF replay THEN 0
                ELSE Len(request.events),
        request |-> request, seen_at |-> seen_at, expires_at |-> expires_at,
        deleted |-> IF org = {} \/ \E o \in org : ~o.is_active THEN {} ELSE deleted,
        device |-> device]

\* session.commit() of a session s that added rows: the flush raises
\* IntegrityError when uq_nonce or uq_devices_org_device is violated by a
\* row committed since, and session rolls back and re-raises.
ingest_request_commit(s) ==
    LET request == s.request
        left == nonces \ s.deleted
        uq_nonce == \E n \in left : SameNonce(n, request)
        uq_devices_org_device ==
            /\ s.device = {}
            /\ \E d \in devices : d.org_id = request.org_id /\ d.device_id = request.device_id
    IN session([ret |-> s.ret, raised |-> uq_nonce \/ uq_devices_org_device,
                nonces |-> left \cup {NonceRow(request, s.seen_at, s.expires_at)},
                devices |-> UpsertDevice(devices, request, s.seen_at),
                events |-> events \o EventRows(request, Len(request.events))])

\* What the handler of request req answers after out.
SessionReply(req, out, persisted) ==
    [NoResp EXCEPT !.status = out.status, !.reason = out.reason, !.stage = out.stage,
                   !.key = Triple(req.org, req.device, req.nonce),
                   !.ts = req.ts.value, !.persisted = persisted]

SessionFrame ==
    /\ UNCHANGED <<now, buckets, local_counts, fail_closed, signing_keys>>
    /\ UNCHANGED <<insights, metrics, runners, handler, task_reqs, histories, computes,
                   timeouts, auth, watchdog, filewatch>>
    /\ UNCHANGED <<limiterVars, agentVars>>

\* A server process comes to db.ingest_request and runs its statements; a
\* session that wrote nothing but the delete commits at once.
SessionOpen(w) ==
    /\ sessions[w].pc = "idle"
    /\ \E req \in ConcurrentRequestsAt(now) :
         /\ FirstViolated(req) >= 11
         /\ Len(events) + PendingEvents(w) + Len(req.body.doc.events) <= MaxEvents
         /\ \E s \in {ingest_request_statements(req.body.doc, req.ts.value,
                                                replay_window_seconds)} :
              IF s.ret > 0
              THEN /\ sessions' = [sessions EXCEPT ![w] =
                                      [pc |-> "open", req |-> req, ret |-> s.ret,
                                       request |-> s.request, seen_at |-> s.seen_at,
                                       expires_at |-> s.expires_at,
                                       deleted |-> s.deleted, device |-> s.device]]
                   /\ UNCHANGED <<nonces, devices, events, task_queue, resp, accepted>>
              ELSE \E out \in {ingest_store(req, "none", buckets, local_counts,
                                             session([ret |-> s.ret, raised |-> FALSE,
                                                      nonces |-> nonces \ s.deleted,
                                                      devices |-> devices,
                                                      events |-> events]))} :
                   /\ nonces' = out.nonces
                   /\ resp' = SessionReply(req, out, 0)
                   /\ UNCHANGED <<devices, events, task_queue, accepted, sessions, filewatch>>
    /\ SessionFrame

\* The session of a server process commits, and its handler replies.
SessionCommit(w) ==
    /\ sessions[w].pc = "open"
    /\ \E s \in {sessions[w]} :
       \E out \in {ingest_store(s.req, "none", buckets, local_counts,
                                ingest_request_commit(s))} :
         /\ nonces' = out.nonces
         /\ devices' = out.devices
         /\ events' = out.events
         /\ task_queue' = out.task_queue
         /\ resp' = SessionReply(s.req, out, Len(out.events) - Len(events))
         /\ accepted' = IF out.status = 200
                        THEN accepted \cup {[org_id |-> s.req.org, device_id |-> s.req.device,
                                             nonce |-> s.req.nonce, request |-> s.req,
                                             at |-> now, expires_at |-> s.expires_at,
                                             answer |-> out.answer]}
                        ELSE accepted
         /\ sessions' = [sessions EXCEPT ![w] = NoSession]
    /\ SessionFrame

IngestOpens == \E w \in Workers : SessionOpen(w)

IngestCommits == \E w \in Workers : SessionCommit(w)

NextConcurrent == IngestOpens \/ IngestCommits \/ Tick

SpecConcurrent == Init /\ [][NextConcurrent]_vars

(***************************************************************************)
(* agent/collectors/common.py: FilewatchCollector.  A file is created with *)
(* mtime 1 and modified once, to mtime 2.                                  *)
(***************************************************************************)
MaxCollects == 4
filewatch_max_events == 2

\* The orders in which rglob may yield the files of S.
ScanOrders(S) ==
    {o \in [1..Cardinality(S) -> S] : \A i, j \in 1..Cardinality(S) : o[i] = o[j] => i = j}

\* _iter_files: the scan stops at max_events * 5 files.
_iter_files(order, files, max_events) ==
    [i \in 1..Min(Len(order), max_events * 5) |->
        [path |-> order[i], mtime |-> files[order[i]]]]

FilewatchEvent(title, entry) == [title |-> title, path |-> entry.path, mtime |-> entry.mtime]

\* The loop of collect over current.items().
RECURSIVE filewatch_loop(_, _, _, _)
filewatch_loop(previous, current, evs, max_events) ==
    IF current = <<>> \/ Len(evs) >= max_events THEN evs
    ELSE LET entry == Head(current)
             prev == previous[entry.path]
         IN filewatch_loop(previous, Tail(current),
                           IF prev = NoMtime
                           THEN Append(evs, FilewatchEvent("filewatch_new_path", entry))
                           ELSE IF entry.mtime > prev
                           THEN Append(evs, FilewatchEvent("filewatch_modified_path", entry))
                           ELSE evs,
                           max_events)

\* _save_state(current)
_save_state(current) ==
    [p \in WatchedPaths |->
        IF \E i \in 1..Len(current) : current[i].path = p
        THEN (CHOOSE e \in {current[i] : i \in 1..Len(current)} : e.path = p).mtime
        ELSE NoMtime]

FilewatchFrame ==
    /\ UNCHANGED <<serverVars, limiterVars, agentVars>>
    /\ UNCHANGED <<insights, metrics, runners, handler, task_reqs, histories, computes,
                   timeouts, auth, watchdog, sessions>>

\* A file appears under a watched path.
FileCreated ==
    /\ \E p \in WatchedPaths :
         /\ filewatch.files[p] = NoMtime
         /\ filewatch' = [filewatch EXCEPT !.files[p] = 1]
    /\ FilewatchFrame

\* A file is written to: its mtime increases.
FileModified ==
    /\ \E p \in WatchedPaths :
         /\ filewatch.files[p] = 1
         /\ filewatch' = [filewatch EXCEPT !.files[p] = 2]
    /\ FilewatchFrame

\* FilewatchCollector.collect
FilewatchCollect ==
    /\ filewatch.cycles < MaxCollects
    /\ \E order \in ScanOrders({p \in WatchedPaths : filewatch.files[p] # NoMtime}) :
        \E current \in {_iter_files(order, filewatch.files, filewatch_max_events)} :
         \E evs \in {filewatch_loop(filewatch.state, current, <<>>, filewatch_max_events)} :
           filewatch' = [filewatch EXCEPT
                            !.state = _save_state(current),
                            !.reported = @ \cup {evs[i] : i \in 1..Len(evs)},
                            !.cycles = @ + 1,
                            !.last = evs]
    /\ FilewatchFrame

NextAgentFilewatch == FileCreated \/ FileModified \/ FilewatchCollect

\* The daemon keeps running cycles.
AgentFilewatchFairness == WF_vars(FilewatchCollect)

SpecAgentFilewatch == Init /\ [][NextAgentFilewatch]_vars /\ AgentFilewatchFairness

(***************************************************************************)
(* Claims.                                                                 *)
(***************************************************************************)

\* C1: once a request with (org, device, nonce) was answered 200, the same
\* request sent again while the replay window of the first is open (the
\* server time is at most the nonce's expires_at, and at most one window
\* after the first was handled) is not accepted: it persists no event, and
\* when it reaches the replay check it is answered 409 -- whatever requests
\* were handled in between.
C1_ReplayRejected ==
    resp.replays_open =>
        /\ resp.status # 200
        /\ resp.persisted = 0
        /\ (resp.stage = 11 => resp.status = 409)

\* C2: when the device upsert or an event insert of a request fails after
\* its nonce row was added, the request leaves the tables nonces, devices and
\* events as they were, and the replay check of a retry of the request (same
\* nonce, same timestamp header) finds no row for its (org, device, nonce):
\* the retry is not answered 409.
C2_NonceRolledBack ==
    [][(resp'.status = 500 /\ resp'.fault \in {"device", "event"}) =>
          /\ nonces' = nonces /\ devices' = devices /\ events' = events
          /\ ~\E n \in nonces' : /\ Triple(n.org_id, n.device_id, n.nonce) = resp'.key
                                 /\ ~(n.expires_at < resp'.ts)]_vars

\* A storage failure hit a request while the tables already held rows.
C2_Witness ==
    resp.status = 500 /\ resp.fault \in {"device", "event"} /\ Len(events) > 0 /\ nonces # {}

\* C3: a request answered with a status other than 200 appends no event row,
\* creates or updates no device row and inserts no nonce row.
C3_FailsClosed ==
    [][resp'.status # 200 =>
          events' = events /\ devices' = devices /\ nonces' \subseteq nonces]_vars

\* A replay was rejected while the tables already held rows.
C3_Witness ==
    resp.status = 409 /\ Len(events) > 0 /\ devices # {}

\* C4: every request is answered with the status of the earliest stage it
\* violates, in the order header presence, org lookup, rate limit, body
\* bounds, org key, signature, timestamp, schema, header/body agreement,
\* send-time skew, replay; 200 only when no stage is violated.
C4_StageOrder ==
    (resp.status # 0 /\ resp.fault = "none") =>
        /\ resp.stage = resp.first_violated
        /\ resp.status = resp.expected_status

\* C5: whatever the body, the pipeline does not end in an unhandled error:
\* with no component failing, the status is never a 5xx.
C5_NoUnhandledError ==
    resp.fault = "none" => resp.status \in {0, 200, 400, 401, 409, 413, 422, 429}


C7_SingleBitRejected ==
    /\ (resp.status # 0 /\ resp.mutated = "none") => resp.verify = "true"
    /\ resp.mutated # "none" =>
            /\ resp.verify = "false"
            /\ resp.stage >= 6 =>
                    /\ resp.status = 401
                    /\ resp.reason = "invalid_signature"
                    /\ resp.persisted = 0


\* C8: the events of one spooled batch are stored by the server at most
\* once, also when the agent sends the batch again because the reply to a
\* request the server had persisted did not arrive.
C8_StoredOnce ==
    \A i, j \in 1..Len(events) : events[i].title = events[j].title => i = j

\* C9: after every enqueue the spool holds at most max_batches rows, and
\* when rows were deleted it holds exactly max_batches rows, none of them
\* older (by created_at) than a deleted row.
C9_NewestRetained ==
    spool_last.op = "enqueue" =>
        /\ Cardinality(spool) <= max_batches
        /\ spool_last.dropped # {} =>
                /\ Cardinality(spool) = max_batches
                /\ \A d \in spool_last.dropped, r \in spool : d.created_at <= r.created_at

\* An enqueue deleted a row that is older than every row it kept.
C9_Witness ==
    /\ spool_last.op = "enqueue"
    /\ \E d \in spool_last.dropped : \A r \in spool : d.created_at < r.created_at

\* The delay the claim gives to the k-th failure in a row: 2, 4, 8, ...,
\* 256, then 300.
ExpectedDelay(k) == IF k <= 8 THEN Pow2(k) ELSE 300

\* C10: a failed send of a batch raises its stored retry count by exactly
\* one and sets next_attempt_at to now plus the delay; the delays of the
\* consecutive failures of a batch are 2, 4, 8, ... seconds, never decrease
\* and never exceed 300 seconds.
C10_Backoff ==
    [][\A r \in spool, r2 \in spool' :
          (r2.id = r.id /\ r2.batch = r.batch /\ r2 # r) =>
              /\ r2.retry_count = r.retry_count + 1
              /\ r2.next_attempt_at = now + r2.delay
              /\ r2.delay = ExpectedDelay(r2.retry_count)
              /\ r2.delay >= r.delay
              /\ r2.delay <= 300]_vars

\* A batch failed often enough for its delay to be capped at 300 seconds.
C10_Witness ==
    \E r \in spool : r.retry_count >= 10 /\ r.delay = 300 /\ r.next_attempt_at = now + 300

\* The row of the spool a returned batch was read from.
RowOf(b) == CHOOSE r \in spool : r.id = b.batch_id

\* C11: due_batches(limit) returns at most limit batches, each of a row with
\* next_attempt_at <= now, in ascending order of id; a batch that was
\* marked failed is not returned before the backoff delay of that failure
\* has elapsed since the failure.
C11_DueBatches ==
    spool_last.op = "due" =>
        /\ Len(pending) <= spool_last.limit
        /\ \A i \in 1..Len(pending) :
              /\ \E r \in spool : r.id = pending[i].batch_id
              /\ RowOf(pending[i]).next_attempt_at <= now
              /\ RowOf(pending[i]).retry_count > 0 =>
                    now >= RowOf(pending[i]).failed_at
                               + ExpectedDelay(RowOf(pending[i]).retry_count)
        /\ \A i, j \in 1..Len(pending) : i < j => pending[i].batch_id < pending[j].batch_id

\* A call returned as many batches as the limit allows while a batch that
\* failed before is due again and another failed batch is held back.
C11_Witness ==
    /\ spool_last.op = "due"
    /\ Len(pending) = spool_last.limit
    /\ \E i \in 1..Len(pending) : pending[i].retry_count > 0
    /\ \E r \in spool : r.retry_count > 0 /\ r.next_attempt_at > now

StoredTitles(evs) == [i \in 1..Len(evs) |-> evs[i].title]

\* The titles of the events of a spooled batch.
BatchTitles(batch) == StoredTitles(EventsOfBatch(batch))

Concat(seqs) == LET F[i \in 0..Len(seqs)] == IF i = 0 THEN <<>> ELSE F[i - 1] \o seqs[i]
                IN F[Len(seqs)]

\* The event by itself is over the byte bound.
ExceedsAlone(batch) ==
    Len(batch) = 1 /\ \E n \in SentAtLens : request_size(batch, n) > MAX_PAYLOAD_BYTES

\* C14: every batch split_batches returns has at most max_batch_events
\* events and is not empty, and the body of the signed request built from
\* it is at most MAX_PAYLOAD_BYTES long, unless the batch is one event that
\* by itself exceeds the byte bound.
C14_SplitBounds ==
    split.done =>
        \A i \in 1..Len(split.batches) :
            LET batch == split.batches[i]
            IN /\ batch # <<>>
               /\ Len(batch) <= split.max_batch_events
               /\ \/ \A n \in SentAtLens : request_size(batch, n) <= MAX_PAYLOAD_BYTES
                  \/ ExceedsAlone(batch)

\* C15: the batches split_batches returns, concatenated in order, are its
\* input; the split is greedy: a batch is closed only when the event after
\* it would not fit, so six events of which two fit in a body give exactly
\* three batches.
C15_SplitPreserves ==
    split.done =>
        /\ Concat(split.batches) = split.events
        /\ \A i \in 1..(Len(split.batches) - 1) :
              LET candidate == Append(split.batches[i], Head(split.batches[i + 1]))
              IN \/ Len(candidate) > Min(split.max_batch_events, MAX_EVENTS_PER_BATCH)
                 \/ \E n \in SentAtLens : request_size(candidate, n) > MAX_PAYLOAD_BYTES
        /\ (/\ Len(split.events) = 6
            /\ split.max_batch_events = 2
            /\ \A i \in 1..6 : split.events[i].size = 8) => Len(split.batches) = 3

\* Six events of which two fit in a body were split into three batches.
C15_Witness ==
    /\ split.done
    /\ Len(split.events) = 6
    /\ split.max_batch_events = 2
    /\ \A i \in 1..6 : split.events[i].size = 8
    /\ Len(split.batches) = 3

\* C20: every ingest answered 200 puts a compute task for its (org, device)
\* on the queue: a step that persists the events of a request appends that
\* task.
C20_AcceptedEnqueues ==
    [][(resp'.status = 200 /\ events' # events) =>
          task_queue' = Append(task_queue, <<resp'.key[1], resp'.key[2]>>)]_vars

\* The runners that are computing the insights of (org, device).
InFlight(key) == {r \in Runners : runners[r].pc # "idle" /\ runners[r].key = key}

\* C16: at any time at most one compute is in flight for an (org, device),
\* whether a task or the scheduler started it.
C16_OneInFlight ==
    \A r \in Runners : runners[r].pc # "idle" => Cardinality(InFlight(runners[r].key)) <= 1

\* The fingerprints of the insight rows of a device, with the number of
\* rows of each.
RowsPerFingerprint(key) ==
    LET rows == {r \in insights : r.org_id = key[1] /\ r.device_id = key[2]}
    IN [fp \in {r.fingerprint : r \in rows} |->
            Cardinality({r \in rows : r.fingerprint = fp})]

\* What one run of the compute on the history leaves in empty tables.
RowsOfOneRun(history) ==
    LET fps == build_insight_bundle(history).insights
    IN [fp \in Range(fps) |-> Occurrences(fps, fp)]

\* C17: once every compute that persisted ran on the same event history,
\* however many there were, the device has the insight rows and the one
\* daily metric row a single run on that history leaves (count and
\* last_seen aside).
C17_RecomputeIdempotent ==
    (/\ \A r \in Runners : runners[r].pc = "idle"
     /\ Cardinality(histories) = 1) =>
        \A history \in histories :
            /\ RowsPerFingerprint(<<"o1", "d1">>) = RowsOfOneRun(history)
            /\ metrics = {[org_id |-> "o1", device_id |-> "d1", day |-> "today",
                           payload |-> Len(history)]}

\* C18: persist_bundle never inserts a row for a fingerprint of an (org,
\* device) while another row of that fingerprint has last_seen within the
\* dedup window.
C18_DedupWindow ==
    [][\A r \in insights' :
          (\A q \in insights : q.id # r.id) =>
              ~\E q \in insights' :
                  /\ q.id # r.id
                  /\ q.org_id = r.org_id /\ q.device_id = r.device_id
                  /\ q.fingerprint = r.fingerprint
                  /\ q.last_seen >= now - dedup_window]_vars

\* The rows of the events of a request are all in the list of event rows.
EventsVisible(req, rows) ==
    Range(EventRows(req.body.doc, Len(req.body.doc.events))) \subseteq Range(rows)

ComputeWorkers == Runners \ {"sched"}

\* The task of worker r comes back from the look at the clock.
TaskCheckStep(r) == runners[r].pc = "built" /\ runners'[r] # runners[r]

\* The task of worker r ends as a timeout: counted, zeros returned, no row
\* of insights or daily_metrics inserted or changed.
TimeoutOutcome(r) ==
    /\ runners'[r].pc = "idle"
    /\ runners'[r].result = [inserted |-> 0, suppressed |-> 0]
    /\ timeouts' = timeouts + 1
    /\ insights' = insights
    /\ metrics' = metrics

\* C21 (as stated, with a cap of 10 s): a task whose compute has taken more
\* than 10 seconds when the clock is read ends as a timeout (timeout metric
\* counted, inserted = 0 and suppressed = 0 returned, no insight row and no
\* daily-metric row inserted or changed), and a compute within 10 seconds
\* is not cut off.
C21_TimeoutAtTenSeconds ==
    [][\A r \in ComputeWorkers :
         TaskCheckStep(r) => ((runners'[r].elapsed > 10) <=> TimeoutOutcome(r))]_vars

\* C21 (amended, with the cap of the code and of the spec, 3 s): a task
\* whose compute has taken more than max_ingest_compute_seconds when the
\* clock is read after the bundle is built ends as a timeout: the timeout
\* metric is counted, inserted = 0 and suppressed = 0 are returned, and no
\* insight row and no daily-metric row is inserted or changed by that run;
\* a compute within the cap goes on to persist.
C21_TimeoutNoWrites ==
    [][\A r \in ComputeWorkers :
         TaskCheckStep(r) =>
            ((runners'[r].elapsed > max_ingest_compute_seconds) <=> TimeoutOutcome(r))]_vars

\* A task of a device with events timed out after 4 seconds, and was counted.
C21_Witness ==
    \E r \in ComputeWorkers :
        /\ runners[r].pc = "idle"
        /\ "elapsed" \in DOMAIN runners[r]
        /\ runners[r].elapsed = 4
        /\ runners[r].result = [inserted |-> 0, suppressed |-> 0]
        /\ timeouts = 1
        /\ insights = {}
        /\ fetch_events_for_device("o1", "d1") # <<>>

\* C22: once the stop event is set, run_daemon starts no further cycle; no
\* time of a wait between cycles passes once the event is set (the wait
\* ends at once, not after the rest of interval_seconds); and run_daemon
\* returns.
C22_StopEndsDaemon ==
    /\ [][daemon.stop => daemon'.cycles = daemon.cycles]_vars
    /\ [][(daemon.stop /\ daemon.pc = "wait") => now' = now]_vars
    /\ (daemon.stop ~> daemon.pc = "returned")

\* The signal came in the middle of a wait after a cycle, and run_daemon
\* has returned without the rest of the wait.
C22_Witness ==
    /\ daemon.pc = "returned"
    /\ daemon.cycles >= 1
    /\ daemon.waited > 0
    /\ daemon.waited < interval_seconds

\* The posts of the cycle that has just ended which failed.
FailedPosts(d) ==
    IF d.last.kind = "sent"
    THEN {id \in DOMAIN d.last.outcomes : d.last.outcomes[id] = "transport_error"}
    ELSE {}

CycleFailed(d) == d.last.kind = "raised" \/ FailedPosts(d) # {}

\* What C23 says of the loop: it ends only when the stop event is set, a
\* cycle begins only after a whole interval of waiting, and after a cycle
\* that failed the next cycle begins (unless the stop event is set; the
\* model stops at MaxCycles cycles).
LoopSurvivesFailure ==
    /\ [][daemon'.pc = "returned" => daemon.stop]_vars
    /\ [][(daemon'.pc = "run" /\ daemon.pc # "run" /\ daemon.cycles >= 1) =>
             daemon.waited >= interval_seconds]_vars
    /\ ((daemon.pc = "wait" /\ CycleFailed(daemon) /\ ~daemon.stop)
            ~> (daemon.pc = "run" \/ daemon.stop \/ daemon.cycles = MaxCycles))

SendDueStep == daemon.pc = "send" /\ daemon'.pc = "wait" /\ daemon'.last.kind = "sent"

\* C23 (as stated): a failure inside a cycle does not end the daemon loop,
\* the next cycle runs after the interval, and a batch whose send failed
\* is in the spool after the cycle with a backoff larger than the one it
\* had before.
C23_NeverCrashesLarger ==
    /\ LoopSurvivesFailure
    /\ [][SendDueStep =>
            \A id \in FailedPosts(daemon') :
               \E r \in spool, r2 \in spool' :
                  r.id = id /\ r2.id = id /\ r2.batch = r.batch /\ r2.delay > r.delay]_vars

\* C23 (amended): a failure inside a cycle does not end the daemon loop,
\* the next cycle runs after the interval, and a batch whose send failed
\* is in the spool after the cycle with a backoff that is not smaller than
\* the one it had before, and larger unless that was 300 seconds already.
C23_NeverCrashes ==
    /\ LoopSurvivesFailure
    /\ [][SendDueStep =>
            \A id \in FailedPosts(daemon') :
               \E r \in spool, r2 \in spool' :
                  /\ r.id = id /\ r2.id = id /\ r2.batch = r.batch
                  /\ r2.delay >= r.delay
                  /\ (r.delay < 300 => r2.delay > r.delay)]_vars

\* A cycle raised after cycles in which the send of a batch failed twice,
\* and a further cycle has begun.
C23_Witness ==
    /\ daemon.pc = "run"
    /\ daemon.last.kind = "raised"
    /\ \E r \in spool : r.retry_count >= 2 /\ r.delay = 4

\* The places in a list of events of the failure envelope of collector c.
FailurePlaces(evs, c) ==
    {k \in 1..Len(evs) : /\ evs[k].title = "collector_failure"
                          /\ evs[k].details_json.collector = c}

\* C24: for every collector whose collect() raises, the list collect_events
\* returns holds exactly one envelope for it, of source SYSTEM and severity
\* WARN, that names the collector and the class of the error; the events
\* of every collector that ran before it are in the list, before that
\* envelope; and the collect() of every collector of the cycle is called.
C24_CollectorFailure ==
    (call.fn = "collect_events" /\ call.done) =>
        \A i \in 1..Len(call.input) :
            call.input[i].tag = "raise" =>
                /\ Cardinality(FailurePlaces(call.output.events, Collectors[i])) = 1
                /\ \A k \in FailurePlaces(call.output.events, Collectors[i]) :
                     /\ call.output.events[k] =
                            [source |-> "system", severity |-> "WARN",
                             title |-> "collector_failure",
                             details_json |-> [collector |-> Collectors[i],
                                               platform |-> "macos",
                                               reason |-> call.input[i].error]]
                     /\ \A j \in 1..(i - 1) :
                          call.input[j].tag = "ok" =>
                             \A n \in 1..Len(call.input[j].events) :
                                \E m \in 1..(k - 1) :
                                   call.output.events[m] = call.input[j].events[n]
                /\ call.output.ran = [j \in 1..Len(call.input) |-> j]

\* The second of three collectors raised after the first returned two
\* events, and the third returned an event.
C24_Witness ==
    /\ call.fn = "collect_events" /\ call.done
    /\ call.input[1].tag = "ok" /\ Len(call.input[1].events) = 2
    /\ call.input[2].tag = "raise"
    /\ call.input[3].tag = "ok" /\ Len(call.input[3].events) = 1
    /\ Len(call.output.events) = 4

\* Two evidence dictionaries differ only in keys outside the allowlist.
SameOnAllowlist(a, b) ==
    /\ DOMAIN a \cap Range(STABLE_EVIDENCE_KEYS) = DOMAIN b \cap Range(STABLE_EVIDENCE_KEYS)
    /\ \A k \in DOMAIN a \cap Range(STABLE_EVIDENCE_KEYS) : a[k] = b[k]

\* C25: two insights of the same type, source and title whose evidence
\* dictionaries differ only in keys outside the stable allowlist get the
\* same fingerprint, whatever the dictionaries are (also when neither has a
\* key of the allowlist).
C25_FingerprintInvariance ==
    (call.fn = "build_fingerprint" /\ call.done) =>
        (SameOnAllowlist(call.input.first, call.input.second) =>
            call.output[1] = call.output[2])

\* C26: of the refreshes with one token at most one is answered 200, the
\* others 401, also when they are handled at the same time; the reply of
\* the successful one carries a token that is not the old one, and the old
\* one is revoked from then on.
C26_RefreshSingleUse ==
    /\ \A a \in auth.replies, b \in auth.replies :
          (a.token = b.token /\ a.status = 200 /\ b.status = 200) => a = b
    /\ \A a \in auth.replies :
          /\ a.status \in {200, 401}
          /\ a.status = 200 =>
                /\ a.refresh_token # a.token
                /\ \A row \in auth.tokens : row.token_id = a.token => row.revoked_at # NotRevoked

\* C27: a rate-limit bucket that holds a count has a time to live, of at
\* most one window, in every state in which no call of allow stands between
\* its INCR and its EXPIRE, also after the connection failed between the
\* two; so the count of an org that reached its limit is gone one window
\* later.
C27_AtomicExpiry ==
    (\A w \in Workers : lim_pc[w].pc = "idle") =>
        \A o \in DOMAIN buckets :
            buckets[o].count > 0 =>
                /\ buckets[o].expires_at # NoExpiry
                /\ buckets[o].expires_at <= now + Max(1, RateWindow)

\* The event rows C28 expects of an accepted request: one for each envelope,
\* in the order of the request, with the fields of the envelope.
ExpectedEventRows(a) ==
    [k \in 1..Len(a.request.body.doc.events) |->
        [org_id |-> a.org_id, device_id |-> a.device_id,
         platform |-> a.request.body.doc.events[k].platform,
         title |-> a.request.body.doc.events[k].title,
         details |-> a.request.body.doc.events[k].details]]

\* C28: an accepted ingest of a request with N events appends exactly N
\* event rows of the request's (org, device), each with the fields of its
\* envelope, and answers accepted = N, rejected = 0; the device row holds
\* the upsert of the request in the same step; no step writes event rows
\* without an accepted request, or a device row without event rows; and
\* no step of ingest changes or removes an event row that exists.
AppendedBy(a) ==
    /\ events' = events \o ExpectedEventRows(a)
    /\ a.answer = [accepted |-> Len(a.request.body.doc.events), rejected |-> 0]
    /\ \E d \in devices' : /\ d.org_id = a.org_id /\ d.device_id = a.device_id
                            /\ d.last_seen_at = a.request.ts.value
                            /\ d.platform = a.request.body.doc.events[1].platform
                            /\ d.agent_version = a.request.body.doc.agent_version

C28_AppendsEvents ==
    [][/\ \A a \in accepted' \ accepted : AppendedBy(a)
       /\ (events' # events) =>
             /\ resp'.status = 200
             /\ \E a \in accepted' : /\ resp'.key = <<a.org_id, a.device_id, a.nonce>>
                                     /\ AppendedBy(a)
       /\ (devices' # devices) => (events' # events)
       /\ Len(events') >= Len(events)
       /\ \A i \in 1..Len(events) : events'[i] = events[i]]_vars

\* A request with two events was accepted when the table held a row.
C28_Witness ==
    /\ Len(events) = 3
    /\ \E a \in accepted :
          /\ Len(a.request.body.doc.events) = 2
          /\ a.answer = [accepted |-> 2, rejected |-> 0]
          /\ events[2].device_id = a.device_id /\ events[3].device_id = a.device_id
          /\ events[2].title # events[3].title

\* C29: there is one device row per (org, device) at most, and exactly one
\* after an accepted ingest of the device; every accepted ingest sets the
\* seen timestamps of the row (first-seen and last-seen) to its own time,
\* and platform and agent-version to the values of its request.
C29_DeviceRow ==
    [][/\ \A d1 \in devices', d2 \in devices' :
             (d1.org_id = d2.org_id /\ d1.device_id = d2.device_id) => d1 = d2
       /\ \A a \in accepted' \ accepted :
             \E d \in devices' :
                /\ d.org_id = a.org_id /\ d.device_id = a.device_id
                /\ d.last_seen_at = a.request.ts.value
                /\ d.first_seen_at = a.request.ts.value
                /\ d.platform = a.request.body.doc.events[1].platform
                /\ d.agent_version = a.request.body.doc.agent_version]_vars

\* C30: mark_sent(id) removes the row with that id and no other row, and
\* changes no row that stays; with an id that is not in the spool (never
\* there, or removed by an earlier mark_sent) it leaves the spool as it is
\* and completes; a second mark_sent(id) changes nothing.
C30_MarkSent ==
    [][(spool_last'.op = "mark_sent" /\ spool_last'.before = spool) =>
          LET id == spool_last'.id IN
          /\ \A r \in spool : (r \in spool') <=> (r.id # id)
          /\ spool' \subseteq spool
          /\ (\A r \in spool : r.id # id) => spool' = spool
          /\ mark_sent(spool', id) = spool']_vars

\* mark_sent removed one row of a spool of two rows or more.
C30_Witness ==
    /\ spool_last.op = "mark_sent"
    /\ Cardinality(spool_last.before) >= 2
    /\ \E r \in spool_last.before : r.id = spool_last.id
    /\ spool = spool_last.before \ {r \in spool_last.before : r.id = spool_last.id}

\* The failed logins of a list of events, as C31 counts them: AUTH events
\* whose title contains "failed" or whose event type is failed_login, in
\* any letter case.
FailedLogins(evs) ==
    {k \in 1..Len(evs) :
        /\ evs[k].source = "auth"
        /\ \/ evs[k].title \in {"Failed password", "failed login", "failed to start"}
           \/ /\ "event_type" \in DOMAIN evs[k].details_json
              /\ evs[k].details_json.event_type \in {"failed_login", "FAILED_LOGIN"}}

ClassOfTenThousandths(r) ==
    IF r < 15000 THEN "normal" ELSE IF r < 30000 THEN "elevated" ELSE "anomalous"

\* C32: every signal of compute_baseline is classified by ratio = today /
\* max(1, median of the prior days) with normal below 1.5, elevated from
\* 1.5 and below 3, anomalous from 3, and the classification reported with
\* a signal is the class of the ratio reported with it.
C32_ClassificationAgrees ==
    (call.fn = "compute_baseline" /\ call.done) =>
        \A key \in Range(METRIC_KEYS) :
            LET m == call.output[key]
                floor == max_one(m.baseline)
            IN /\ m.classification =
                     (IF 2 * m.today * floor.den < 3 * floor.num THEN "normal"
                      ELSE IF m.today * floor.den < 3 * floor.num THEN "elevated"
                      ELSE "anomalous")
               /\ m.classification = ClassOfTenThousandths(m.ratio)

RowsOf(rows, fingerprint) == {r \in rows : r.fingerprint = fingerprint}

HigherSeverity(a, b) == IF SEVERITY_RANK[a] >= SEVERITY_RANK[b] THEN a ELSE b
HigherConfidence(a, b) == IF CONFIDENCE_RANK[a] >= CONFIDENCE_RANK[b] THEN a ELSE b

\* C33: an insight recorded when the latest row of its fingerprint was last
\* seen within the dedup window before it adds no row: that row counts one
\* more and carries the higher of the two severities and the higher of the
\* two confidences, and every other row is as before; an insight whose
\* fingerprint has no row inserts one row of count 1; and a row is
\* inserted for a fingerprint that has rows only when the window since the
\* last_seen of its latest row has elapsed.
C33_DedupWithinWindow ==
    [][(watchdog'.recorded = watchdog.recorded + 1) =>
          LET insight == watchdog'.last.insight
              before == RowsOf(watchdog.insights, insight.fingerprint)
              after == RowsOf(watchdog'.insights, insight.fingerprint)
              latest == _load_latest_by_fingerprint(watchdog.insights, insight.fingerprint)
          IN /\ (\E e \in latest : /\ insight.ts - e.last_seen >= 0
                                   /\ insight.ts - e.last_seen <= dedup_window_minutes) =>
                   /\ Cardinality(after) = Cardinality(before)
                   /\ \E e \in latest :
                         /\ watchdog'.insights \ watchdog.insights =
                               {[e EXCEPT !.count = e.count + 1,
                                          !.severity = HigherSeverity(e.severity, insight.severity),
                                          !.confidence = HigherConfidence(e.confidence,
                                                                          insight.confidence),
                                          !.last_seen = insight.ts, !.ts = insight.ts]}
                         /\ watchdog.insights \ watchdog'.insights = {e}
             /\ before = {} =>
                   /\ watchdog.insights \subseteq watchdog'.insights
                   /\ Cardinality(after) = 1
                   /\ \A r \in after : r.count = 1 /\ r.severity = insight.severity
             /\ (before # {} /\ Cardinality(after) > Cardinality(before)) =>
                   \A e \in latest : insight.ts - e.last_seen > dedup_window_minutes]_vars

\* The same fingerprint was recorded twice within the window, first WARN
\* with confidence HIGH and then HIGH with confidence LOW: one row, count 2,
\* severity HIGH, confidence HIGH.
C33_Witness ==
    /\ watchdog.recorded = 2
    /\ watchdog.last.op = "record"
    /\ watchdog.last.insight.severity = "HIGH"
    /\ watchdog.last.insight.confidence = "LOW"
    /\ watchdog.last.existing # {}
    /\ \A e \in watchdog.last.existing : e.severity = "WARN" /\ e.confidence = "HIGH"
    /\ Cardinality(watchdog.insights) = 1
    /\ \A r \in watchdog.insights :
          r.count = 2 /\ r.severity = "HIGH" /\ r.confidence = "HIGH" /\ r.last_seen > r.first_seen

\* The fixed bound of C34, set where the model can reach it: one less than
\* the number of file events the model lets arrive between two drains.
BufferBound == MaxFileEvents - 1

\* C34: the number of events in the buffer between the observer thread and
\* the cycle never exceeds the fixed bound, however many file events arrive
\* between two drains.
C34_BoundedBuffer == Len(watchdog.queue) <= BufferBound

\* C35: a step of ingest removes a nonce record only when its expires_at is
\* earlier than the server time of the step: a nonce whose replay window
\* has not elapsed stays, whatever the header timestamp of the request.
C35_NonceGcByServerTime ==
    [][\A n \in nonces \ nonces' : n.expires_at < now]_vars

\* The cycles a batch is given to get through before the cycles of the
\* model are over.
StarveHorizon == 8

SameKeyCommitted(s) == \E n \in nonces \ s.deleted : SameNonce(n, s.request)

C37_ConcurrentSameNonce ==
    [][\A w \in Workers :
          (/\ sessions[w].pc = "open"
           /\ sessions'[w].pc = "idle"
           /\ SameKeyCommitted(sessions[w]))
          => (/\ resp'.status = 409
              /\ events' = events
              /\ devices' = devices)]_vars

\* C38: the dropped count of the summary of run_once is the number of
\* batches the size cap of the spool evicted during that cycle.
C38_DroppedCount ==
    spool_last.op = "run_once"
        => spool_last.summary.dropped_batches = Cardinality(spool_last.dropped)

\* C39: a file that exists under a watched path while cycles are still to
\* come is reported as filewatch_new_path in some cycle, and a file whose
\* mtime is above the one of the saved snapshot is reported as
\* filewatch_modified_path in some cycle, however many files changed.
CollectHorizon == 3

ReportedAs(title, p) == \E e \in filewatch.reported : e.title = title /\ e.path = p

C40_SeenTimestamps ==
    [][/\ \A d \in devices' : d.first_seen_at <= d.last_seen_at
       /\ \A d1 \in devices, d2 \in devices' :
             (d1.org_id = d2.org_id /\ d1.device_id = d2.device_id)
                => d1.last_seen_at <= d2.last_seen_at]_vars


====
